---- MODULE Spec2Model ----
(***************************************************************************)
(* Client-side synchronization core of just-a-list-manager:                *)
(*   - the Reconnection Orchestrator of TelegramProvider (SpecOrch),       *)
(*   - the Mutation Dispatcher useMutationQueue over the durable           *)
(*     MutationQueue (SpecQueue).                                          *)
(* Every definition that models code names its source in MODEL_MAP.json.   *)
(***************************************************************************)
EXTENDS Integers, Sequences, FiniteSets, TLC

\* ------------------------------------------------------------------------
\* Bounds of the model (not program constants)
\* ------------------------------------------------------------------------
MaxPasses == 2
MaxConsec == 6
MaxOrphans == 2
MaxMut == 2          \* mutations added in one behaviour
MaxTemp == 1         \* temp ids handed out (creates added)
MaxLateTicks == 1    \* 1 ms clock steps once the retention window has passed
MaxInst == 2         \* times the list page of one collection is mounted
MaxSubRetry == 7     \* error statuses handled without a reset of retryCount
MaxSubscribes == 8   \* subscribe() calls that open a channel, per effect run
MaxSubOrphans == 1   \* pending retry timers no longer held by retryTimer
MaxLogEnq == 102     \* enqueue() calls on one collection's log
MaxLogOdd == 1       \* dequeue() calls and failed enqueue() writes together
MaxClients == 3      \* network clients created in a session
MaxRsAttempts == 3   \* channels opened by one instance of the resubscribe hook
MaxRsInst == 2       \* mounts of the list page

\* ------------------------------------------------------------------------
\* Program constants
\* ------------------------------------------------------------------------
MAX_RETRIES == 5
MUTATION_MAX_AGE_MS == 24 * 60 * 60 * 1000
MAX_QUEUE_SIZE == 100
MIN_RETRY_MS == 1000
MAX_RETRY_MS == 30000

VARIABLES
  \* --- Reconnection Orchestrator (TelegramProvider) ---
  orchestratorStateRef,   \* OrchestratorState held in the ref
  connectionStatus,       \* React state derived by setOrchestratorState
  retryCountRef,          \* consecutive failed passes
  reconnectLockRef,       \* mutex of runReconnect
  retryTimeoutPending,    \* the timer held by retryTimeoutRef has not fired yet
  cooldownTimeoutPending, \* the timer held by cooldownTimeoutRef has not fired yet
  cooldownOrphans,        \* pending cooldown timers no longer held by the ref
  jwtRef,                 \* TRUE iff jwtRef.current holds a token
  hasClient,              \* TRUE iff supabaseClientRef.current is set
  hasInitData,            \* TRUE iff Telegram.WebApp.initData is non-empty
  throttled,              \* now - lastReconnectAttemptRef < RECONNECT_THROTTLE_MS
  bootPc,                 \* position of the bootstrap effect's async block
  viewMounted,            \* a list page has registered its three callbacks
  passPc,                 \* position of each in-flight runReconnect() call
  \* --- observation of the orchestrator (history) ---
  lastEvent,              \* the handler that ran in the last step
  startedPass,            \* the last step got past the guards of runReconnect
  consecTokenFail,        \* passes in a row that ended in a token failure
  tokenFailRun,           \* token failures since the counter was last set to
                          \* 0; -1 once a later step failed in between
  \* --- Mutation Dispatcher (useMutationQueue) and its log ---
  queue,                  \* localStorage["mutation_queue:<listId>"]
  pendingExecutors,       \* mutation id -> cached executor, or NoExec
  isFlushingRef,          \* mutex of flushQueue
  snapshot,               \* `queue` as read by the running flushQueue
  idx,                    \* index in snapshot of the entry being awaited
  tempToRealId,           \* temp id -> server id, of the running pass
  failedTempIds,          \* temp ids whose create failed in the running pass
  awaiting,               \* the call the running pass awaits, or NoCall
  immediate,              \* unsettled immediate attempts of addMutation
  now,                    \* Date.now()
  nextMutId,              \* mutation ids handed out so far
  uiTemp,                 \* temp ids of pending items shown by the list page
  tempsUsed,              \* temp ids handed out so far
  \* --- observation of the dispatcher (history) ---
  lastStep,               \* the dispatcher handler that ran in the last step
  lastCall,               \* the executor invocation of the last step, or NoCall
  lastSettle,             \* the settled call and raw outcome of the last step
  execCount,              \* invocations by the running pass, per mutation id
  offlineQueued,          \* ids whose immediate attempt met an offline signal
  droppedPermanent,       \* ids dequeued for a permanent client error
  droppedNoExecutor,      \* ids dequeued by a pass that had no executor for them
  lastPassed,             \* the entries the loop passed without invoking an
                          \* executor in the last step, and the branch taken
  \* --- instances of useMutationQueue over one collection's log ---
  inst,                   \* per hook instance: its refs and its pass's locals
  instCount,              \* hook instances created so far
  instMounted,            \* the instance whose component is mounted, or 0
  lastInstStep,           \* the instance handler that ran in the last step
  \* --- Subscription Manager with backoff (useRealtimeList, part_003) ---
  subActive,              \* `active` of the current effect run
  subRetryCount,          \* retryCount
  subRetryTimer,          \* delay of the timer held by retryTimer, 0 if null
  subOrphans,             \* pending timers whose handle was overwritten
  subHad,                 \* hadSuccessfulConnection
  subCount,               \* subscribeCount
  subChannel,             \* channelRef.current: a channel number, 0 if null
  subOpen,                \* channels opened on the client and not removed
  subStatus,              \* connectionStatus (React state)
  \* --- observation of the Subscription Manager (history) ---
  lastSubStep,            \* the handler that ran in the last step
  lastDelay,              \* the delay passed to setTimeout in the last step, or 0
  schedSince,             \* retries scheduled since the last SUBSCRIBED status,
                          \* online event or effect start
  subFailed,              \* an error status was handled in this effect run
  lastRecovered,          \* the last step called onReconnect
  \* --- Subscription Manager with resubscribe (useRealtimeList.ts) ---
  rsMounted,              \* the hook instance is mounted
  rsInst,                 \* mounts so far: the number of the current instance
  rsClient,               \* supabaseClientRef.current and the supabaseClient
                          \* state, set together: a client number, 0 if null
  rsEffectClient,         \* the client the last effect run was given, 0 if it
                          \* returned early or the hook is not mounted
  rsCount,                \* subscribeCountRef.current
  rsChannelRef,           \* channelRef.current, NoChannel if null
  rsResubscribed,         \* resubscribedRef.current
  rsOpen,                 \* channels opened on a client and not removed
  rsSubd,                 \* the open channels that have reported SUBSCRIBED
  rsAwait,                \* channels whose status callback can still act
  rsPass,                 \* the orchestrator's pass as this hook meets it:
                          \* "idle", "rotated" (client recreated, resubscribe
                          \* step not reached), "resub" (awaiting resubscribe)
  rsDone,                 \* the resubscribe() call settled last, with its
                          \* channel and outcome: its callbacks can still run
  lastRsSettle,           \* the promise settled in the last step (history)
  lastRsStep,             \* the handler that ran in the last step (history)
  \* --- MutationQueue over localStorage (mutation-queue.ts) ---
  store,                  \* the array stored under the collection's key
  logEnq,                 \* enqueue() calls so far (the next entry's number)
  logDeq,                 \* dequeue() calls so far
  logFail,                \* enqueue() calls whose setItem threw so far
  lastLogOp               \* the last call: operation, entry id, length of the
                          \* log before it, whether setItem succeeded

orchVars == <<orchestratorStateRef, connectionStatus, retryCountRef,
              reconnectLockRef, retryTimeoutPending, cooldownTimeoutPending,
              cooldownOrphans, jwtRef, hasClient, hasInitData, throttled,
              bootPc, viewMounted, passPc, lastEvent, startedPass,
              consecTokenFail, tokenFailRun>>

queueVars == <<queue, pendingExecutors, isFlushingRef, snapshot, idx,
               tempToRealId, failedTempIds, awaiting, immediate, now,
               nextMutId, uiTemp, tempsUsed, lastStep, lastCall, lastSettle,
               execCount, offlineQueued, droppedPermanent, droppedNoExecutor,
               lastPassed>>

\* the orchestrator's variables except jwtRef, which the dispatcher reads
orchVarsNoJwt == <<orchestratorStateRef, connectionStatus, retryCountRef,
                   reconnectLockRef, retryTimeoutPending,
                   cooldownTimeoutPending, cooldownOrphans, hasClient,
                   hasInitData, throttled, bootPc, viewMounted, passPc,
                   lastEvent, startedPass, consecTokenFail, tokenFailRun>>

instVars == <<inst, instCount, instMounted, lastInstStep>>

\* the variables of the components added after the orchestrator and the
\* dispatcher
subVars == <<subActive, subRetryCount, subRetryTimer, subOrphans, subHad,
             subCount, subChannel, subOpen, subStatus, lastSubStep,
             lastDelay, schedSince, subFailed, lastRecovered>>

logVars == <<store, logEnq, logDeq, logFail, lastLogOp>>

rsVars == <<rsMounted, rsInst, rsClient, rsEffectClient, rsCount, rsChannelRef,
            rsResubscribed, rsOpen, rsSubd, rsAwait, rsPass, rsDone, lastRsSettle,
            lastRsStep>>

extVars == <<instVars, subVars, logVars, rsVars>>

vars == <<orchVars, queueVars, extVars>>

Slots == 1..MaxPasses

OrchestratorState ==
  {"initializing", "idle", "reconnecting", "needs_retry", "cooldown", "auth_failed"}

mapToConnectionStatus(state) ==
  CASE state \in {"initializing", "reconnecting", "needs_retry"} -> "connecting"
    [] state \in {"idle", "cooldown"} -> "connected"
    [] state = "auth_failed" -> "auth_failed"

Min(a, b) == IF a < b THEN a ELSE b

\* The orchestrator's mutable fields as one record, so that a handler that
\* calls another handler is the composition of their effects.
Cur ==
  [st |-> orchestratorStateRef, conn |-> connectionStatus,
   rc |-> retryCountRef, lock |-> reconnectLockRef,
   rt |-> retryTimeoutPending, ct |-> cooldownTimeoutPending,
   co |-> cooldownOrphans, jwt |-> jwtRef, client |-> hasClient,
   thr |-> throttled, pc |-> passPc, started |-> FALSE,
   ctf |-> consecTokenFail, tfr |-> tokenFailRun, ev |-> "none"]

Apply(o, ev) ==
  /\ orchestratorStateRef' = o.st
  /\ connectionStatus' = o.conn
  /\ retryCountRef' = o.rc
  /\ reconnectLockRef' = o.lock
  /\ retryTimeoutPending' = o.rt
  /\ cooldownTimeoutPending' = o.ct
  /\ cooldownOrphans' = o.co
  /\ jwtRef' = o.jwt
  /\ hasClient' = o.client
  /\ throttled' = o.thr
  /\ passPc' = o.pc
  /\ startedPass' = o.started
  /\ consecTokenFail' = o.ctf
  /\ tokenFailRun' = o.tfr
  /\ lastEvent' = IF o.ev = "none" THEN ev ELSE o.ev

setOrchestratorState(o, state) ==
  [o EXCEPT !.st = state, !.conn = mapToConnectionStatus(state)]

\* TokenFailure with the ceiling test written > instead of >=.
TokenFailure_CeilingGt(o, p) ==
  LET o1 == [o EXCEPT !.rc = @ + 1, !.pc[p] = "none", !.lock = FALSE,
                      !.ctf = Min(@ + 1, MaxConsec),
                      !.tfr = IF @ < 0 THEN @ ELSE Min(@ + 1, MaxConsec),
                      !.ev = "tokenFail"]
  IN IF o1.rc > MAX_RETRIES
       THEN [o1 EXCEPT !.st = "auth_failed", !.conn = "auth_failed"]
       ELSE [o1 EXCEPT !.st = "needs_retry", !.conn = "connecting", !.rt = TRUE]

\* runReconnect, lines 251-269: no token after refresh and fallback.
TokenFailure(o, p) ==
  LET o1 == [o EXCEPT !.rc = @ + 1, !.pc[p] = "none", !.lock = FALSE,
                      !.ctf = Min(@ + 1, MaxConsec),
                      !.tfr = IF @ < 0 THEN @ ELSE Min(@ + 1, MaxConsec),
                      !.ev = "tokenFail"]
  IN IF o1.rc >= MAX_RETRIES
       THEN setOrchestratorState(o1, "auth_failed")
       ELSE [setOrchestratorState(o1, "needs_retry") EXCEPT !.rt = TRUE]

\* PartialFailure that schedules no retry
PartialFailure_NoTimer(o, p) ==
  LET o1 == [o EXCEPT !.rc = @ + 1, !.pc[p] = "none", !.lock = FALSE,
                      !.ctf = 0, !.tfr = -1, !.ev = "partialFail"]
  IN setOrchestratorState(o1, "needs_retry")

\* PartialFailure that gives up at the ceiling as a token failure does
PartialFailure_AuthFailed(o, p) ==
  LET o1 == [o EXCEPT !.rc = @ + 1, !.pc[p] = "none", !.lock = FALSE,
                      !.ctf = 0, !.tfr = -1, !.ev = "partialFail"]
  IN IF o1.rc >= MAX_RETRIES
       THEN setOrchestratorState(o1, "auth_failed")
       ELSE [setOrchestratorState(o1, "needs_retry") EXCEPT !.rt = TRUE]

\* runReconnect, lines 298-321: a step after the token threw.
PartialFailure(o, p) ==
  LET o1 == [o EXCEPT !.rc = @ + 1, !.pc[p] = "none", !.lock = FALSE,
                      !.ctf = 0, !.tfr = -1, !.ev = "partialFail"]
  IN IF o1.rc >= MAX_RETRIES
       THEN setOrchestratorState(o1, "needs_retry")
       ELSE [setOrchestratorState(o1, "needs_retry") EXCEPT !.rt = TRUE]

\* runReconnect, lines 289-297: every step succeeded. A cooldown timer that
\* is still pending is not cleared: it stays pending, no longer referenced.
PassSuccess(o, p) ==
  LET o1 == [o EXCEPT !.rc = 0, !.pc[p] = "none", !.lock = FALSE, !.ctf = 0,
                      !.tfr = 0, !.ev = "passSuccess",
                      !.co = IF o.ct THEN @ + 1 ELSE @, !.ct = TRUE]
  IN setOrchestratorState(o1, "cooldown")

\* AfterStep that invokes the next callback without reading its ref
AfterStep_Unchecked(o, p, next) == [o EXCEPT !.pc[p] = next]

\* runReconnect, lines 274-287: the callback of the next step is read when
\* the previous step completed; an unregistered callback is skipped without
\* an await, so the remaining checks happen in the same turn.
AfterStep(o, p, next) ==
  IF viewMounted THEN [o EXCEPT !.pc[p] = next] ELSE PassSuccess(o, p)

\* runReconnect, lines 271-276: token obtained; rebuild the client.
AfterToken(o, p, rebuildThrows) ==
  IF rebuildThrows
    THEN PartialFailure(o, p)
    ELSE AfterStep([o EXCEPT !.client = TRUE], p, "flush")

\* RunGuard that lets a pass start in cooldown as well.
RunGuard_Cooldown(state, lock) == state \in {"idle", "cooldown"} /\ ~lock

\* RunGuard without the mutex test of line 231.
RunGuard_NoLock(state, lock) == state = "idle"

\* RunGuard without the state test of line 229.
RunGuard_NoState(state, lock) == ~lock

\* runReconnect, lines 229-231.
RunGuard(state, lock) == state = "idle" /\ ~lock

\* runReconnect, lines 227-249 up to the first network await.
\* fetchToken(null) returns null without a request when no JWT is held.
runReconnect(o) ==
  IF ~RunGuard(o.st, o.lock) \/ \A q \in Slots : o.pc[q] # "none"
    THEN o
    ELSE LET p == CHOOSE q \in Slots : o.pc[q] = "none"
             o1 == [setOrchestratorState(o, "reconnecting")
                      EXCEPT !.lock = TRUE, !.started = TRUE]
         IN [o1 EXCEPT !.pc[p] = IF o1.jwt THEN "token1" ELSE "token1null"]

\* reconnect, line 330.
ReconnectGuard(lock) == ~lock

\* reconnect that resets the retry counter only when it is below the ceiling.
reconnect_CondReset(o) ==
  IF ~ReconnectGuard(o.lock)
    THEN o
    ELSE runReconnect([o EXCEPT !.rt = FALSE, !.ct = FALSE,
                                !.rc = IF @ >= MAX_RETRIES THEN @ ELSE 0,
                                !.tfr = 0, !.st = "idle"])

\* reconnect, lines 328-346.
reconnect(o) ==
  IF ~ReconnectGuard(o.lock)
    THEN o
    ELSE runReconnect([o EXCEPT !.rt = FALSE, !.ct = FALSE, !.rc = 0,
                                !.tfr = 0, !.st = "idle"])

\* debouncedReconnect, lines 353-358.
debouncedReconnect(o) ==
  IF o.thr THEN o ELSE reconnect([o EXCEPT !.thr = TRUE])

OrchFrame ==
  UNCHANGED <<hasInitData, bootPc, viewMounted, queueVars, extVars>>

\* ---- entry points -------------------------------------------------------
Online == Apply(debouncedReconnect(Cur), "online") /\ OrchFrame

Visible == Apply(debouncedReconnect(Cur), "visible") /\ OrchFrame

Manual == Apply(reconnect(Cur), "manual") /\ OrchFrame

Proactive == Apply(runReconnect(Cur), "proactive") /\ OrchFrame

Heartbeat ==
  /\ hasClient
  /\ Apply(runReconnect(Cur), "heartbeat")
  /\ OrchFrame

ThrottleExpire ==
  /\ throttled
  /\ Apply([Cur EXCEPT !.thr = FALSE], "throttleExpire")
  /\ OrchFrame

\* setTimeout callback of lines 264-267 and 314-318.
RetryTimerFire ==
  /\ retryTimeoutPending
  /\ Apply(runReconnect([Cur EXCEPT !.rt = FALSE, !.st = "idle"]), "retryTimer")
  /\ OrchFrame

\* a cooldown timer that does nothing when it fires
CooldownExpiry_Never(state) == FALSE

\* setTimeout callback, lines 294-296: the state is still cooldown
CooldownExpiry(state) == state = "cooldown"

\* setTimeout callback of lines 293-297 (the timer held by the ref, or one
\* that was left pending when the ref was overwritten).
CooldownTimerFire ==
  /\ \/ /\ cooldownTimeoutPending
        /\ Apply(IF CooldownExpiry(orchestratorStateRef)
                   THEN setOrchestratorState([Cur EXCEPT !.ct = FALSE], "idle")
                   ELSE [Cur EXCEPT !.ct = FALSE], "cooldownTimer")
     \/ /\ cooldownOrphans > 0
        /\ Apply(IF CooldownExpiry(orchestratorStateRef)
                   THEN setOrchestratorState([Cur EXCEPT !.co = @ - 1], "idle")
                   ELSE [Cur EXCEPT !.co = @ - 1], "cooldownTimer")
  /\ OrchFrame

\* ---- the steps of one recovery pass -------------------------------------
\* first fetchToken settles, lines 238-249
TokenFirstSettle(p) ==
  /\ passPc[p] \in {"token1", "token1null"}
  /\ \E ok \in BOOLEAN, rebuildThrows \in BOOLEAN :
       Apply(IF ok /\ passPc[p] = "token1" THEN AfterToken([Cur EXCEPT !.jwt = TRUE], p, rebuildThrows)
             ELSE IF hasInitData
                    THEN [Cur EXCEPT !.jwt = FALSE, !.pc[p] = "token2"]
                    ELSE TokenFailure([Cur EXCEPT !.jwt = FALSE], p),
             "tokenSettle")
  /\ OrchFrame

\* fallback fetchToken(freshInitData) settles, lines 247-269
TokenFallbackSettle(p) ==
  /\ passPc[p] = "token2"
  /\ \E ok \in BOOLEAN, rebuildThrows \in BOOLEAN :
       Apply(IF ok THEN AfterToken([Cur EXCEPT !.jwt = TRUE], p, rebuildThrows)
             ELSE TokenFailure(Cur, p),
             "tokenSettle")
  /\ OrchFrame

\* NextStepOf that goes from the flush to the re-fetch
NextStepOf_SkipResub(pc) ==
  CASE pc = "flush" -> "refresh"
    [] pc = "resub" -> "refresh"
    [] pc = "refresh" -> "end"

\* runReconnect, lines 274-287: the order of the awaited callbacks
NextStepOf(pc) ==
  CASE pc = "flush" -> "resub"
    [] pc = "resub" -> "refresh"
    [] pc = "refresh" -> "end"

\* the awaited callback of step 2, 3 or 4 settles, lines 274-297
StepSettle(p) ==
  /\ passPc[p] \in {"flush", "resub", "refresh"}
  /\ \E ok \in BOOLEAN :
       Apply(IF ~ok THEN PartialFailure(Cur, p)
             ELSE IF NextStepOf(passPc[p]) = "end" THEN PassSuccess(Cur, p)
             ELSE AfterStep(Cur, p, NextStepOf(passPc[p])),
             "stepSettle")
  /\ OrchFrame

\* ---- bootstrap effect, lines 389-510 ------------------------------------
BootstrapToken ==
  /\ bootPc = "token"
  /\ bootPc' = "user"
  /\ \E ok \in BOOLEAN :
       Apply(IF ok /\ (jwtRef \/ hasInitData)
               THEN [Cur EXCEPT !.jwt = TRUE, !.client = TRUE]
               ELSE Cur, "bootstrapToken")
  /\ UNCHANGED <<hasInitData, viewMounted, queueVars, extVars>>

BootstrapComplete ==
  /\ bootPc = "user"
  /\ bootPc' = "done"
  /\ Apply(setOrchestratorState(Cur, "idle"), "bootstrap")
  /\ UNCHANGED <<hasInitData, viewMounted, queueVars, extVars>>

\* ---- list page registers / clears its callbacks, part_011 336-346 -------
ViewMount ==
  /\ ~viewMounted
  /\ viewMounted' = TRUE
  /\ Apply(Cur, "viewMount")
  /\ UNCHANGED <<hasInitData, bootPc, queueVars, extVars>>

ViewUnmount ==
  /\ viewMounted
  /\ viewMounted' = FALSE
  /\ Apply(Cur, "viewUnmount")
  /\ UNCHANGED <<hasInitData, bootPc, queueVars, extVars>>

\* ------------------------------------------------------------------------
\* Durable Mutation Log (MutationQueue) and Mutation Dispatcher
\* (useMutationQueue), with the list page's executors
\* ------------------------------------------------------------------------
MutIds == 1..MaxMut

NoId == <<"none", 0>>
RealItem == <<"real", 1>>
TempId(k) == <<"temp", k>>
ServerIdOf(t) == <<"srv", t[2]>>
TempIds == {TempId(k) : k \in 1..MaxTemp}

\* create carries payload.tempId; toggle carries payload.itemId (as edit and
\* delete do); reorder carries payload.orderedIds.
MutationTypes == {"create", "toggle", "reorder"}

\* HTTP statuses a failed response is given
Statuses == {404, 408, 500}

NoExec == [src |-> "none", itemId |-> NoId, orderedIds |-> {}]

NoCall == [id |-> 0, type |-> "none", tempId |-> NoId, origItemId |-> NoId,
           origOrderedIds |-> {}, itemId |-> NoId, orderedIds |-> {},
           src |-> "none", by |-> "none", timestamp |-> 0]

NoOutcome == [kind |-> "none", result |-> NoId, net |-> FALSE, status |-> 0]

NoSettle == [id |-> 0, out |-> NoOutcome, online |-> TRUE, by |-> "none"]

\* What an executor invocation can settle with: success (a create returns
\* the server id, or nothing when the response lists no item), a network
\* error ("Failed to fetch"), "<Op> failed: <status>", or another error.
Outcomes(call, statuses) ==
  {[kind |-> "ok", result |-> r, net |-> FALSE, status |-> 0] :
      r \in IF call.type = "create" THEN {ServerIdOf(call.tempId), NoId}
                                    ELSE {NoId}}
  \cup {[kind |-> "err", result |-> NoId, net |-> TRUE, status |-> 0]}
  \cup {[kind |-> "err", result |-> NoId, net |-> FALSE, status |-> s] :
          s \in statuses}

\* navigator.onLine as read in the catch block; it is read only when
\* execute() threw an error whose message names no network failure.
OnLineReads(out) ==
  IF out.kind = "err" /\ ~out.net THEN BOOLEAN ELSE {TRUE}

Ids(q) == {q[i].id : i \in 1..Len(q)}

\* enqueue that drops the newest entries when the log is full
enqueue_DropNewest(q, entry) ==
  LET pushed == Append(q, entry)
  IN IF Len(pushed) > MAX_QUEUE_SIZE
       THEN SubSeq(pushed, 1, MAX_QUEUE_SIZE)
       ELSE pushed

\* MutationQueue.enqueue, mutation-queue.ts lines 39-57
enqueue(q, entry) ==
  LET pushed == Append(q, entry)
  IN IF Len(pushed) > MAX_QUEUE_SIZE
       THEN SubSeq(pushed, Len(pushed) - MAX_QUEUE_SIZE + 1, Len(pushed))
       ELSE pushed

\* dequeue that removes the oldest entry as well
dequeue_AndHead(q, id) == SelectSeq(q, LAMBDA m : m.id # id /\ m.id # q[1].id)

\* dequeue that removes nothing
dequeue_Keep(q, id) == q

\* MutationQueue.dequeue, mutation-queue.ts lines 59-62
dequeue(q, id) == SelectSeq(q, LAMBDA m : m.id # id)

\* IsOfflineSignal that does not read navigator.onLine
IsOfflineSignal_NetOnly(err, onLine) == err.net

\* executeMutation, lines 44-49
IsOfflineSignal(err, onLine) == err.net \/ ~onLine

\* executeMutation, lines 55-56: three digits at the end of the message
ExtractStatus(err) ==
  IF err.status >= 100 /\ err.status <= 999 THEN err.status ELSE 0

\* executeMutation, line 59
IsPermanent(httpStatus) ==
  /\ httpStatus # 0
  /\ httpStatus >= 400 /\ httpStatus < 500
  /\ httpStatus # 408 /\ httpStatus # 429

\* executeMutation, lines 33-71, from the point where execute() settled:
\* the log, the executor table and the value it returns.
executeMutation(q, pe, id, out, onLine) ==
  IF out.kind = "ok"
    THEN [queue |-> dequeue(q, id), pe |-> [pe EXCEPT ![id] = NoExec],
          result |-> out.result, dropped |-> FALSE]
  ELSE IF IsOfflineSignal(out, onLine)
    THEN [queue |-> q, pe |-> pe, result |-> NoId, dropped |-> FALSE]
  ELSE IF IsPermanent(ExtractStatus(out))
    THEN [queue |-> dequeue(q, id), pe |-> [pe EXCEPT ![id] = NoExec],
          result |-> NoId, dropped |-> TRUE]
  ELSE [queue |-> q, pe |-> pe, result |-> NoId, dropped |-> FALSE]

\* IsStale with no retention window
IsStale_Never(m, t) == FALSE

\* IsStale with >= for >
IsStale_Geq(m, t) == t - m.timestamp >= MUTATION_MAX_AGE_MS

\* flushQueue, line 84
IsStale(m, t) == t - m.timestamp > MUTATION_MAX_AGE_MS

\* DependsOnFailed that never skips
DependsOnFailed_Never(m, failed) == FALSE

\* flushQueue, line 92
DependsOnFailed(m, failed) == m.itemId # NoId /\ m.itemId \in failed

\* NeedsResolve that never resolves
NeedsResolve_Never(m, t2r) == FALSE

\* flushQueue, line 98 (the condition)
NeedsResolve(m, t2r) ==
  m.itemId # NoId /\ m.itemId \in DOMAIN t2r /\ t2r[m.itemId] # NoId

\* ResolveMutation that leaves the temp id in the payload
ResolveMutation_Keep(m, t2r) == m

\* flushQueue, lines 98-100
ResolveMutation(m, t2r) ==
  IF NeedsResolve(m, t2r) THEN [m EXCEPT !.itemId = t2r[m.itemId]] ELSE m

\* executorFactory, part_011 lines 84-121: the closure sends the payload of
\* the mutation it was built from.
executorFactory(m) ==
  [src |-> "factory", itemId |-> m.itemId, orderedIds |-> m.orderedIds]

\* the execute closure handed to addMutation, part_011 lines 373-401,
\* 482-499, 707-728: it sends the ids the handler saw.
originalExecutor(m) ==
  [src |-> "original", itemId |-> m.itemId, orderedIds |-> m.orderedIds]

CallOf(m, executor, who) ==
  [id |-> m.id, type |-> m.type, tempId |-> m.tempId,
   origItemId |-> m.itemId, origOrderedIds |-> m.orderedIds,
   itemId |-> executor.itemId, orderedIds |-> executor.orderedIds,
   src |-> executor.src, by |-> who, timestamp |-> m.timestamp]

\* The dispatcher's mutable fields as one record.
QCur ==
  [queue |-> queue, pe |-> pendingExecutors, flushing |-> isFlushingRef,
   snap |-> snapshot, idx |-> idx, t2r |-> tempToRealId,
   failed |-> failedTempIds, aw |-> awaiting, ec |-> execCount,
   call |-> NoCall, passed |-> {}, offq |-> offlineQueued]

\* a factory that builds an executor without asking for the credential
HasCredential_Always(jwt) == TRUE

\* flushQueue, lines 109-111: getJwt() returned a token
HasCredential(jwt) == jwt

\* a flushQueue() that returns with isFlushingRef still set
EndPass_KeepFlag(f) == [f EXCEPT !.aw = NoCall]

\* flushQueue, line 139: the loop is over
EndPass(f) == [f EXCEPT !.flushing = FALSE, !.aw = NoCall]

\* flushQueue, lines 82-139: the loop from entry f.idx until it awaits an
\* executor or runs off the end of the snapshot. It runs without a
\* suspension point, so Date.now() and the JWT are those of the step.
RECURSIVE RunLoop(_)
RunLoop(f) ==
  LET snap == f.snap IN
  IF f.idx > Len(snap)
    THEN EndPass(f)
    ELSE
      LET m == snap[f.idx] IN
      IF IsStale(m, now)
        THEN RunLoop([f EXCEPT !.queue = dequeue(@, m.id),
                               !.pe[m.id] = NoExec, !.idx = @ + 1,
                               !.passed = @ \cup {[m |-> m, how |-> "stale"]}])
      ELSE IF DependsOnFailed(m, f.failed)
        THEN RunLoop([f EXCEPT !.idx = @ + 1,
                               !.passed = @ \cup {[m |-> m, how |-> "skipped"]}])
      ELSE
        LET resolved == NeedsResolve(m, f.t2r)
            resolvedMutation == ResolveMutation(m, f.t2r)
            cached == IF resolved THEN NoExec ELSE f.pe[m.id]
            executor == IF cached = NoExec /\ HasCredential(jwtRef)
                          THEN executorFactory(resolvedMutation)
                          ELSE cached
        IN IF executor # NoExec
             THEN [f EXCEPT !.pe[m.id] = executor,
                            !.aw = CallOf(m, executor, "drain"),
                            !.call = CallOf(m, executor, "drain"),
                            !.ec[m.id] = @ + 1]
             ELSE RunLoop([f EXCEPT !.queue = dequeue(@, m.id),
                                    !.pe[m.id] = cached, !.idx = @ + 1,
                                    !.passed = @ \cup
                                       {[m |-> m, how |-> "noExecutor"]}])

\* StartFlush whose loop begins at the second entry
StartFlush_FromSecond(f) ==
  RunLoop([f EXCEPT !.flushing = TRUE, !.snap = f.queue, !.idx = 2,
                    !.t2r = [t \in TempIds |-> NoId], !.failed = {},
                    !.ec = [i \in MutIds |-> 0]])

\* flushQueue, lines 73-80
StartFlush(f) ==
  RunLoop([f EXCEPT !.flushing = TRUE, !.snap = f.queue, !.idx = 1,
                    !.t2r = [t \in TempIds |-> NoId], !.failed = {},
                    !.ec = [i \in MutIds |-> 0]])

\* The locals of a flushQueue() call that has returned are gone. The state
\* right after the returning step still shows them; the next handler that
\* is not part of a pass sees none.
ForgetPass(f) ==
  IF f.flushing THEN f
  ELSE [f EXCEPT !.snap = <<>>, !.idx = 1,
                 !.t2r = [t \in TempIds |-> NoId], !.failed = {},
                 !.ec = [i \in MutIds |-> 0]]

QApply(f, step, settle) ==
  /\ queue' = f.queue
  /\ pendingExecutors' = f.pe
  /\ isFlushingRef' = f.flushing
  /\ snapshot' = f.snap
  /\ idx' = f.idx
  /\ tempToRealId' = f.t2r
  /\ failedTempIds' = f.failed
  /\ awaiting' = f.aw
  /\ execCount' = f.ec
  /\ lastPassed' = f.passed
  /\ droppedNoExecutor' =
       droppedNoExecutor \cup {p.m.id : p \in {x \in f.passed :
                                                  x.how = "noExecutor"}}
  /\ offlineQueued' = f.offq \cap Ids(f.queue)
  /\ lastCall' = f.call
  /\ lastStep' = step
  /\ lastSettle' = settle

QueueFrame == UNCHANGED <<orchVarsNoJwt, jwtRef, extVars>>

\* flushQueue() is called (orchestrator step 2, or any other caller)
FlushCall ==
  /\ IF isFlushingRef
       THEN QApply(QCur, "flushRefused", NoSettle)
       ELSE QApply(StartFlush(QCur), "flushStart", NoSettle)
  /\ UNCHANGED <<immediate, now, nextMutId, uiTemp, tempsUsed,
                 droppedPermanent>>
  /\ QueueFrame

\* the create executor of addSingleItem replaces the pending item when the
\* response lists the created item, part_011 lines 389-399
UiAfter(call, out) ==
  IF call.type = "create" /\ call.src = "original" /\ out.kind = "ok"
     /\ out.result # NoId
    THEN uiTemp \ {call.tempId}
    ELSE uiTemp

\* the executor awaited by the running pass settles, lines 120-131, and the
\* loop goes on
FlushSettle ==
  /\ isFlushingRef
  /\ awaiting # NoCall
  /\ \E out \in Outcomes(awaiting, Statuses) : \E onLine \in OnLineReads(out) :
       LET r == executeMutation(queue, pendingExecutors, awaiting.id, out,
                                onLine)
           isCreate == awaiting.type = "create" /\ awaiting.tempId # NoId
           t2r == IF r.result # NoId /\ isCreate
                    THEN [tempToRealId EXCEPT ![awaiting.tempId] = r.result]
                    ELSE tempToRealId
           failed == IF r.result = NoId /\ isCreate
                        /\ awaiting.id \in Ids(r.queue)
                       THEN failedTempIds \cup {awaiting.tempId}
                       ELSE failedTempIds
       IN /\ QApply(RunLoop([QCur EXCEPT !.queue = r.queue, !.pe = r.pe,
                                         !.t2r = t2r, !.failed = failed,
                                         !.aw = NoCall, !.idx = @ + 1]),
                    "flushSettle",
                    [id |-> awaiting.id, out |-> out, online |-> onLine,
                     by |-> "drain"])
          /\ uiTemp' = UiAfter(awaiting, out)
          /\ droppedPermanent' = IF r.dropped
                                   THEN droppedPermanent \cup {awaiting.id}
                                   ELSE droppedPermanent
  /\ UNCHANGED <<immediate, now, nextMutId, tempsUsed>>
  /\ QueueFrame

\* addMutation without the check of the pass in progress
SkipImmediate_Never(flushing) == FALSE

\* addMutation, lines 152-153: no immediate attempt while a pass is active
SkipImmediate(flushing) == flushing

\* addMutation, lines 142-159, called by addSingleItem, handleToggle and
\* handleDragEnd of the list page
AddMutation(type, target) ==
  /\ nextMutId < MaxMut
  /\ type = "create" => (tempsUsed < MaxTemp /\ target = NoId)
  /\ type = "toggle" => target \in {RealItem} \cup uiTemp
  /\ type = "reorder" => target = NoId
  /\ LET id == nextMutId + 1
         m == [id |-> id, type |-> type,
               tempId |-> IF type = "create" THEN TempId(tempsUsed + 1)
                                             ELSE NoId,
               itemId |-> IF type = "toggle" THEN target ELSE NoId,
               orderedIds |-> IF type = "reorder"
                                THEN {RealItem} \cup uiTemp ELSE {},
               timestamp |-> now]
         call == CallOf(m, originalExecutor(m), "immediate")
         f == [ForgetPass(QCur) EXCEPT !.queue = enqueue(@, m),
                                       !.pe[id] = originalExecutor(m)]
     IN /\ nextMutId' = id
        /\ tempsUsed' = IF type = "create" THEN tempsUsed + 1 ELSE tempsUsed
        /\ uiTemp' = IF type = "create" THEN uiTemp \cup {m.tempId} ELSE uiTemp
        /\ IF SkipImmediate(isFlushingRef)
             THEN /\ QApply(f, "addMutation", NoSettle)
                  /\ immediate' = immediate
             ELSE /\ QApply([f EXCEPT !.call = call], "addMutation", NoSettle)
                  /\ immediate' = immediate \cup {call}
  /\ UNCHANGED <<now, droppedPermanent>>
  /\ QueueFrame

\* the immediate attempt of addMutation settles, lines 156 and 33-71
ImmediateSettle(call) ==
  /\ call \in immediate
  /\ \E out \in Outcomes(call, Statuses) : \E onLine \in OnLineReads(out) :
       LET r == executeMutation(queue, pendingExecutors, call.id, out, onLine)
       IN /\ QApply([ForgetPass(QCur) EXCEPT
                       !.queue = r.queue, !.pe = r.pe,
                       !.offq = IF out.kind = "err" /\ (out.net \/ ~onLine)
                                  THEN @ \cup {call.id} ELSE @],
                    "immediateSettle",
                    [id |-> call.id, out |-> out, online |-> onLine,
                     by |-> "immediate"])
          /\ uiTemp' = UiAfter(call, out)
          /\ droppedPermanent' = IF r.dropped
                                   THEN droppedPermanent \cup {call.id}
                                   ELSE droppedPermanent
  /\ immediate' = immediate \ {call}
  /\ UNCHANGED <<now, nextMutId, tempsUsed>>
  /\ QueueFrame

\* The page is loaded again: every in-memory ref is new, the log is read
\* from localStorage, and the mount effect (lines 162-168) flushes it.
Remount ==
  /\ LET f0 == [QCur EXCEPT !.pe = [i \in MutIds |-> NoExec],
                            !.flushing = FALSE, !.aw = NoCall]
     IN IF Len(queue) > 0
          THEN QApply(StartFlush(f0), "remount", NoSettle)
          ELSE QApply(ForgetPass(f0), "remount", NoSettle)
  /\ immediate' = {}
  /\ uiTemp' = {}
  /\ UNCHANGED <<now, nextMutId, tempsUsed, droppedPermanent>>
  /\ QueueFrame

QueueEnvFrame ==
  /\ QApply(ForgetPass(QCur), "env", NoSettle)
  /\ UNCHANGED <<immediate, nextMutId, uiTemp, tempsUsed, droppedPermanent>>
  /\ UNCHANGED <<orchVarsNoJwt, extVars>>

\* Date.now() advances: by the whole retention window, then by 1 ms
Tick ==
  /\ \/ /\ now = 0
        /\ now' = MUTATION_MAX_AGE_MS
     \/ /\ now >= MUTATION_MAX_AGE_MS
        /\ now < MUTATION_MAX_AGE_MS + MaxLateTicks
        /\ now' = now + 1
  /\ QueueEnvFrame
  /\ UNCHANGED jwtRef

\* jwtRef.current is set by fetchToken (part_019 line 189) or cleared by
\* runReconnect (line 241)
JwtChange ==
  /\ jwtRef' = ~jwtRef
  /\ QueueEnvFrame
  /\ UNCHANGED now

InitQueue ==
  /\ queue = <<>>
  /\ pendingExecutors = [i \in MutIds |-> NoExec]
  /\ isFlushingRef = FALSE
  /\ snapshot = <<>>
  /\ idx = 1
  /\ tempToRealId = [t \in TempIds |-> NoId]
  /\ failedTempIds = {}
  /\ awaiting = NoCall
  /\ immediate = {}
  /\ now = 0
  /\ nextMutId = 0
  /\ uiTemp = {}
  /\ tempsUsed = 0
  /\ lastStep = "init"
  /\ lastCall = NoCall
  /\ lastSettle = NoSettle
  /\ execCount = [i \in MutIds |-> 0]
  /\ offlineQueued = {}
  /\ droppedPermanent = {}
  /\ droppedNoExecutor = {}
  /\ lastPassed = {}

NextQueue ==
  \/ FlushCall
  \/ FlushSettle
  \/ \E type \in MutationTypes, target \in {NoId, RealItem} \cup TempIds :
       AddMutation(type, target)
  \/ \E call \in immediate : ImmediateSettle(call)
  \/ Remount
  \/ Tick
  \/ JwtChange

\* ------------------------------------------------------------------------
\* Instances of useMutationQueue: the refs of the hook live in the component
\* instance, the log lives in localStorage under the collection's key. A
\* flushQueue() that is awaiting an executor when its component unmounts
\* goes on when the executor settles.
\* ------------------------------------------------------------------------
Insts == 1..MaxInst

NoInstStep == [kind |-> "init", i |-> 0, call |-> NoCall]

\* useMutationQueue, lines 25-31: the refs of a new hook instance
NewInst ==
  [pe |-> [i \in MutIds |-> NoExec], flushing |-> FALSE, snap |-> <<>>,
   idx |-> 1, t2r |-> [t \in TempIds |-> NoId], failed |-> {},
   aw |-> NoCall, imm |-> {}]

\* the refs of instance i with the log as localStorage holds it
InstCur(i) ==
  [queue |-> queue, pe |-> inst[i].pe, flushing |-> inst[i].flushing,
   snap |-> inst[i].snap, idx |-> inst[i].idx, t2r |-> inst[i].t2r,
   failed |-> inst[i].failed, aw |-> inst[i].aw,
   ec |-> [j \in MutIds |-> 0], call |-> NoCall, passed |-> {},
   offq |-> {}]

InstApply(i, f0, imm, kind) ==
  LET f == ForgetPass(f0)
  IN /\ queue' = f.queue
     /\ inst' = [inst EXCEPT ![i] =
                   [pe |-> f.pe, flushing |-> f.flushing, snap |-> f.snap,
                    idx |-> f.idx, t2r |-> f.t2r, failed |-> f.failed,
                    aw |-> f.aw, imm |-> imm]]
     /\ lastInstStep' = [kind |-> kind, i |-> i, call |-> f.call]

InstFrame ==
  UNCHANGED <<subVars, logVars, rsVars, orchVarsNoJwt, pendingExecutors, isFlushingRef, snapshot, idx,
              tempToRealId, failedTempIds, awaiting, immediate, now, uiTemp,
              tempsUsed, lastStep, lastCall, lastSettle, execCount,
              offlineQueued, droppedPermanent, droppedNoExecutor, lastPassed>>

\* the list page of the collection is mounted: a new hook instance, whose
\* mount effect (lines 162-168) flushes a non-empty log
InstMount ==
  /\ instMounted = 0
  /\ instCount < MaxInst
  /\ LET i == instCount + 1
         f == [InstCur(i) EXCEPT !.pe = NewInst.pe]
     IN /\ instCount' = i
        /\ instMounted' = i
        /\ IF Len(queue) > 0
             THEN InstApply(i, StartFlush(f), {}, "mount")
             ELSE InstApply(i, f, {}, "mount")
  /\ UNCHANGED <<nextMutId, jwtRef>>
  /\ InstFrame

\* the list page is unmounted (part_011 lines 341-345): no handler of the
\* instance is called any more; what it awaits is not cancelled
InstUnmount ==
  /\ instMounted # 0
  /\ instMounted' = 0
  /\ lastInstStep' = [kind |-> "unmount", i |-> instMounted, call |-> NoCall]
  /\ UNCHANGED <<queue, inst, instCount, nextMutId, jwtRef>>
  /\ InstFrame

\* addMutation of the mounted instance, lines 142-159 (a toggle of a
\* persisted item)
InstAddMutation ==
  /\ instMounted # 0
  /\ nextMutId < MaxMut
  /\ LET i == instMounted
         id == nextMutId + 1
         m == [id |-> id, type |-> "toggle", tempId |-> NoId,
               itemId |-> RealItem, orderedIds |-> {}, timestamp |-> now]
         f == [InstCur(i) EXCEPT !.queue = enqueue(@, m),
                                 !.pe[id] = originalExecutor(m)]
     IN /\ nextMutId' = id
        /\ IF inst[i].flushing
             THEN InstApply(i, f, inst[i].imm, "addMutation")
             ELSE InstApply(i, [f EXCEPT !.call =
                                  CallOf(m, originalExecutor(m), "immediate")],
                            inst[i].imm \cup {id}, "addMutation")
  /\ UNCHANGED <<instCount, instMounted, jwtRef>>
  /\ InstFrame

\* flushQueue() of the mounted instance is called through the callback the
\* page registered (part_011 line 338), lines 73-80
InstFlushCall ==
  /\ instMounted # 0
  /\ LET i == instMounted
     IN IF inst[i].flushing
          THEN InstApply(i, InstCur(i), inst[i].imm, "flushRefused")
          ELSE InstApply(i, StartFlush(InstCur(i)), inst[i].imm, "flushStart")
  /\ UNCHANGED <<instCount, instMounted, nextMutId, jwtRef>>
  /\ InstFrame

\* the executor awaited by the pass of instance i settles, lines 120-131
InstFlushSettle(i) ==
  /\ inst[i].flushing
  /\ inst[i].aw # NoCall
  /\ \E out \in Outcomes(inst[i].aw, Statuses) :
     \E onLine \in OnLineReads(out) :
       LET r == executeMutation(queue, inst[i].pe, inst[i].aw.id, out, onLine)
       IN InstApply(i, RunLoop([InstCur(i) EXCEPT !.queue = r.queue,
                                                  !.pe = r.pe,
                                                  !.aw = NoCall,
                                                  !.idx = @ + 1]),
                    inst[i].imm, "flushSettle")
  /\ UNCHANGED <<instCount, instMounted, nextMutId, jwtRef>>
  /\ InstFrame

\* an immediate attempt of instance i settles, lines 156 and 33-71
InstImmediateSettle(i, id) ==
  /\ id \in inst[i].imm
  /\ \E out \in Outcomes([type |-> "toggle", tempId |-> NoId], Statuses) :
     \E onLine \in OnLineReads(out) :
       LET r == executeMutation(queue, inst[i].pe, id, out, onLine)
       IN InstApply(i, [InstCur(i) EXCEPT !.queue = r.queue, !.pe = r.pe],
                    inst[i].imm \ {id}, "immediateSettle")
  /\ UNCHANGED <<instCount, instMounted, nextMutId, jwtRef>>
  /\ InstFrame

\* jwtRef.current is set or cleared by the provider
InstJwtChange ==
  /\ jwtRef' = ~jwtRef
  /\ lastInstStep' = [kind |-> "env", i |-> 0, call |-> NoCall]
  /\ UNCHANGED <<queue, inst, instCount, instMounted, nextMutId>>
  /\ InstFrame

InitInst ==
  /\ inst = [i \in Insts |-> NewInst]
  /\ instCount = 0
  /\ instMounted = 0
  /\ lastInstStep = NoInstStep

NextInst ==
  \/ InstMount
  \/ InstUnmount
  \/ InstAddMutation
  \/ InstFlushCall
  \/ \E i \in Insts : InstFlushSettle(i)
  \/ \E i \in Insts : \E id \in MutIds : InstImmediateSettle(i, id)
  \/ InstJwtChange

\* ------------------------------------------------------------------------
\* Subscription Manager with exponential backoff (useRealtimeList, part_003)
\* ------------------------------------------------------------------------
RECURSIVE Pow2(_)
Pow2(n) == IF n = 0 THEN 1 ELSE 2 * Pow2(n - 1)

ChannelStatuses == {"SUBSCRIBED", "CHANNEL_ERROR", "TIMED_OUT", "CLOSED"}

\* the closure variables of the effect, the channel ref and the React state
SCur ==
  [active |-> subActive, retryCount |-> subRetryCount,
   retryTimer |-> subRetryTimer, orphans |-> subOrphans, had |-> subHad,
   count |-> subCount, channel |-> subChannel, open |-> subOpen,
   status |-> subStatus, delay |-> 0, sched |-> schedSince,
   failed |-> subFailed, recovered |-> FALSE]

SApply(c, step) ==
  /\ subActive' = c.active
  /\ subRetryCount' = c.retryCount
  /\ subRetryTimer' = c.retryTimer
  /\ subOrphans' = c.orphans
  /\ subHad' = c.had
  /\ subCount' = c.count
  /\ subChannel' = c.channel
  /\ subOpen' = c.open
  /\ subStatus' = c.status
  /\ lastDelay' = c.delay
  /\ schedSince' = c.sched
  /\ subFailed' = c.failed
  /\ lastRecovered' = c.recovered
  /\ lastSubStep' = step

\* subscribe() without the removal of the existing channel
subscribe_NoRemove(c) ==
  IF ~c.active THEN c
  ELSE [c EXCEPT !.open = @ \cup {c.count + 1},
                 !.status = IF c.had THEN "connecting" ELSE @,
                 !.count = @ + 1,
                 !.channel = c.count + 1]

\* subscribe(), lines 41-131
subscribe(c) ==
  IF ~c.active THEN c
  ELSE [c EXCEPT !.open = (@ \ {c.channel}) \cup {c.count + 1},
                 !.status = IF c.had THEN "connecting" ELSE @,
                 !.count = @ + 1,
                 !.channel = c.count + 1]

\* the backoff delay with the exponent one too high
BackoffDelay_OffByOne(retryCount) ==
  Min(MIN_RETRY_MS * Pow2(retryCount + 1), MAX_RETRY_MS)

\* scheduleRetry(), line 147
BackoffDelay(retryCount) ==
  Min(MIN_RETRY_MS * Pow2(retryCount), MAX_RETRY_MS)

\* scheduleRetry(), lines 133-154: setTimeout's handle replaces the one
\* held by retryTimer, whose timer stays pending
scheduleRetry(c) ==
  IF ~c.active THEN c
  ELSE [c EXCEPT !.open = @ \ {c.channel},
                 !.channel = 0,
                 !.status = IF c.had THEN "connecting" ELSE @,
                 !.delay = BackoffDelay(c.retryCount),
                 !.retryCount = @ + 1,
                 !.orphans = IF c.retryTimer # 0 THEN @ + 1 ELSE @,
                 !.retryTimer = BackoffDelay(c.retryCount),
                 !.sched = @ + 1,
                 !.failed = TRUE]

\* the status callback with onReconnect called on every SUBSCRIBED
OnSubscribed_AlwaysHook(c) ==
  [c EXCEPT !.retryCount = 0, !.had = TRUE, !.status = "connected",
            !.sched = 0, !.recovered = TRUE]

\* the status callback, lines 112-128, with SUBSCRIBED
OnSubscribed(c) ==
  [c EXCEPT !.retryCount = 0, !.had = TRUE, !.status = "connected",
            !.sched = 0, !.recovered = c.had /\ c.retryCount > 0]

SubFrame == UNCHANGED <<orchVars, queueVars, instVars, logVars, rsVars>>

\* the effect runs (lines 32-39, 172-176) with a client and a list id
SubMount ==
  /\ ~subActive
  /\ SApply(subscribe([SCur EXCEPT !.active = TRUE, !.retryCount = 0,
                                   !.retryTimer = 0, !.had = FALSE,
                                   !.count = 0, !.sched = 0,
                                   !.failed = FALSE]),
            "mount")
  /\ SubFrame

\* the effect's cleanup, lines 178-190; timers it does not hold find
\* `active` false when they fire
SubUnmount ==
  /\ subActive
  /\ SApply([SCur EXCEPT !.active = FALSE, !.retryTimer = 0, !.orphans = 0,
                         !.open = @ \ {subChannel}, !.channel = 0],
            "unmount")
  /\ SubFrame

\* supabaseClient changes to another client: the cleanup (lines 178-190)
\* and the effect (lines 32-39, 172-176) run in the same commit
SubClientChange ==
  /\ subActive
  /\ SApply(subscribe([SCur EXCEPT !.retryCount = 0, !.retryTimer = 0,
                                   !.orphans = 0, !.had = FALSE,
                                   !.open = @ \ {subChannel}, !.channel = 0,
                                   !.count = 0, !.sched = 0,
                                   !.failed = FALSE]),
            "clientChange")
  /\ SubFrame

\* a channel opened by this effect run calls the status callback
ChannelStatus(ch, status) ==
  /\ subActive
  /\ ch \in 1..subCount
  /\ status \in {"CHANNEL_ERROR", "TIMED_OUT"} =>
       (subRetryCount < MaxSubRetry
         /\ (subRetryTimer # 0 => subOrphans < MaxSubOrphans))
  /\ SApply(CASE status = "SUBSCRIBED" -> OnSubscribed(SCur)
              [] status \in {"CHANNEL_ERROR", "TIMED_OUT"} ->
                   scheduleRetry(SCur)
              [] OTHER -> SCur,
            status)
  /\ SubFrame

\* the timer held by retryTimer fires, lines 150-153
SubRetryTimerFire ==
  /\ subRetryTimer # 0
  /\ subCount < MaxSubscribes
  /\ SApply(subscribe([SCur EXCEPT !.retryTimer = 0]), "retryTimer")
  /\ SubFrame

\* a timer whose handle was overwritten fires, lines 150-153: it clears
\* retryTimer, whatever timer that holds, and subscribes
SubOrphanTimerFire ==
  /\ subOrphans > 0
  /\ subCount < MaxSubscribes
  /\ SApply(subscribe([SCur EXCEPT !.orphans = @ - 1 +
                                       (IF subRetryTimer # 0 THEN 1 ELSE 0),
                                   !.retryTimer = 0]),
            "orphanTimer")
  /\ SubFrame

\* window "offline", lines 157-160
GoOffline ==
  /\ subActive
  /\ SApply([SCur EXCEPT !.status = "offline"], "offline")
  /\ SubFrame

\* window "online", lines 162-170
GoOnline ==
  /\ subActive
  /\ subCount < MaxSubscribes
  /\ SApply(subscribe([SCur EXCEPT !.retryCount = 0, !.retryTimer = 0,
                                   !.sched = 0]),
            "online")
  /\ SubFrame

InitSub ==
  /\ subActive = FALSE
  /\ subRetryCount = 0
  /\ subRetryTimer = 0
  /\ subOrphans = 0
  /\ subHad = FALSE
  /\ subCount = 0
  /\ subChannel = 0
  /\ subOpen = {}
  /\ subStatus = "connecting"
  /\ lastSubStep = "init"
  /\ lastDelay = 0
  /\ schedSince = 0
  /\ subFailed = FALSE
  /\ lastRecovered = FALSE

NextSub ==
  \/ SubMount
  \/ SubUnmount
  \/ SubClientChange
  \/ \E ch \in 1..MaxSubscribes, status \in ChannelStatuses :
       ChannelStatus(ch, status)
  \/ SubRetryTimerFire
  \/ SubOrphanTimerFire
  \/ GoOffline
  \/ GoOnline

\* ------------------------------------------------------------------------
\* Subscription Manager with resubscribe (useRealtimeList.ts, lines
\* 126-297), the hook the list page mounts next to the orchestrator. A
\* channel is written as the number in its name, the client it was opened
\* on and the hook instance that opened it.
\* ------------------------------------------------------------------------
NoChannel == [name |-> 0, client |-> 0, inst |-> 0]

NoRsSettle == [ch |-> NoChannel, outcome |-> "none", again |-> FALSE]

RsFrame == UNCHANGED <<orchVars, queueVars, instVars, subVars, logVars>>

RCur ==
  [mounted |-> rsMounted, inst |-> rsInst, client |-> rsClient, effectClient |-> rsEffectClient,
   count |-> rsCount, channelRef |-> rsChannelRef,
   resubscribed |-> rsResubscribed, open |-> rsOpen, subd |-> rsSubd,
   await |-> rsAwait,
   pass |-> rsPass, done |-> rsDone, settle |-> NoRsSettle]

RApply(r, step) ==
  /\ rsMounted' = r.mounted
  /\ rsInst' = r.inst
  /\ rsClient' = r.client
  /\ rsEffectClient' = r.effectClient
  /\ rsCount' = r.count
  /\ rsChannelRef' = r.channelRef
  /\ rsResubscribed' = r.resubscribed
  /\ rsOpen' = r.open
  /\ rsSubd' = r.subd \cap r.open
  /\ rsAwait' = r.await
  /\ rsPass' = r.pass
  /\ rsDone' = r.done
  /\ lastRsSettle' = r.settle
  /\ lastRsStep' = step

\* the effect's cleanup, lines 269-278
effectCleanup(r) ==
  IF r.channelRef = NoChannel THEN r
  ELSE [r EXCEPT !.open = IF r.client # 0 THEN @ \ {r.channelRef} ELSE @,
                 !.channelRef = NoChannel]

\* the effect with the counter restarted at every run
effectBody_ResetCount(r) ==
  IF r.client = 0 THEN [r EXCEPT !.effectClient = 0]
  ELSE IF r.resubscribed
       THEN [r EXCEPT !.resubscribed = FALSE, !.effectClient = r.client]
       ELSE LET ch == [name |-> 1, client |-> r.client, inst |-> r.inst]
            IN [r EXCEPT !.open = (@ \ {r.channelRef}) \cup {ch},
                         !.channelRef = NoChannel,
                         !.count = 1,
                         !.await = @ \cup {[ch |-> ch, kind |-> "effect"]},
                         !.effectClient = r.client]

\* the effect, lines 244-269, run for the client of the render
effectBody(r) ==
  IF r.client = 0 THEN [r EXCEPT !.effectClient = 0]
  ELSE IF r.resubscribed
       THEN [r EXCEPT !.resubscribed = FALSE, !.effectClient = r.client]
       ELSE LET ch == [name |-> r.count + 1, client |-> r.client, inst |-> r.inst]
            IN [r EXCEPT !.open = (@ \ {r.channelRef}) \cup {ch},
                         !.channelRef = NoChannel,
                         !.count = @ + 1,
                         !.await = @ \cup {[ch |-> ch, kind |-> "effect"]},
                         !.effectClient = r.client]

\* resolve() or reject() of the promise of the call that opened x.ch: the
\* pass that awaits it goes on (part_019, lines 279-282)
Settle(r, x, outcome) ==
  [r EXCEPT !.await = @ \ {x},
            !.pass = "idle",
            !.done = {[ch |-> x.ch, outcome |-> outcome]},
            !.settle = [ch |-> x.ch, outcome |-> outcome,
                        again |-> \E d \in r.done : d.ch = x.ch]]

\* resubscribe(), lines 198-241, up to channel.subscribe()
resubscribe(r) ==
  IF r.client = 0
  THEN [r EXCEPT !.pass = "idle",
                 !.settle = [ch |-> NoChannel, outcome |-> "resolved",
                             again |-> FALSE]]
  ELSE LET ch == [name |-> r.count + 1, client |-> r.client, inst |-> r.inst]
       IN [r EXCEPT !.pass = "resub",
                    !.channelRef = NoChannel,
                    !.count = @ + 1,
                    !.open = @ \cup {ch},
                    !.await = @ \cup {[ch |-> ch, kind |-> "resub"]}]

\* the list page mounts: a new hook instance, its refs at their initial values
RsMount ==
  /\ ~rsMounted
  /\ rsInst < MaxRsInst
  /\ RApply(effectBody([RCur EXCEPT !.mounted = TRUE, !.inst = @ + 1,
                                    !.count = 0,
                                    !.channelRef = NoChannel,
                                    !.resubscribed = FALSE]),
            "mount")
  /\ RsFrame

\* the list page unmounts: the cleanup runs if the last effect run returned
\* one. The refs of the instance are no longer read: the status callbacks of
\* its effect channels, which only write channelRef, can no longer act
RsUnmount ==
  /\ rsMounted
  /\ RApply([(IF rsEffectClient # 0 THEN effectCleanup(RCur) ELSE RCur)
               EXCEPT !.mounted = FALSE, !.effectClient = 0,
                      !.await = {x \in @ : x.kind = "resub"}],
            "unmount")
  /\ RsFrame

\* the render after supabaseClient changed: the cleanup of the last effect
\* run, then the effect
RsClientChange ==
  /\ rsMounted
  /\ rsEffectClient # rsClient
  /\ rsClient # 0 /\ ~rsResubscribed => rsCount < MaxRsAttempts
  /\ RApply(effectBody(IF rsEffectClient # 0 THEN effectCleanup(RCur)
                       ELSE RCur),
            "clientChange")
  /\ RsFrame

\* the orchestrator's resubscribe step calls the registered callback
\* (part_019, lines 279-282), after it recreated the client (line 272)
RsResubscribe ==
  /\ rsPass = "rotated"
  /\ rsMounted
  /\ rsClient # 0 => rsCount < MaxRsAttempts
  /\ RApply(resubscribe(RCur), "resubscribe")
  /\ RsFrame

\* recreateSupabaseClient (part_019, lines 210-222): the old client's
\* channels are removed, the new client replaces it in the ref and the state
RecreateClient ==
  /\ rsPass = "idle"
  /\ rsClient < MaxClients
  /\ RApply([RCur EXCEPT !.open = {c \in @ : c.client # rsClient},
                         !.client = @ + 1,
                         !.pass = "rotated"],
            "recreateClient")
  /\ RsFrame

\* the client was created by the bootstrap, or the pass finds no resubscribe
\* callback registered (part_019, line 280), or its flush step threw
RsPassEnd ==
  /\ rsPass = "rotated"
  /\ RApply([RCur EXCEPT !.pass = "idle"], "passEnd")
  /\ RsFrame

\* a channel opened by the effect reports SUBSCRIBED, lines 261-265
RsEffectSubscribed(x) ==
  /\ x \in rsAwait /\ x.kind = "effect"
  /\ x.ch \in rsOpen
  /\ RApply([RCur EXCEPT !.channelRef = x.ch, !.subd = @ \cup {x.ch}],
            "effectSubscribed")
  /\ RsFrame

\* the `settled` flag read as if it were never set
Settled_Never(r, x) == FALSE

\* the `settled` flag of the call that opened x.ch, lines 216, 218, 226
Settled(r, x) == x \notin r.await

\* the status callback of resubscribe(), lines 225-239; the refs of an
\* instance that was unmounted are not the mounted instance's
onResubStatus(r, x, status) ==
  IF Settled(r, x) THEN r
  ELSE CASE status = "SUBSCRIBED" ->
              IF x.ch.inst = r.inst /\ r.mounted
              THEN [Settle(r, x, "resolved") EXCEPT !.channelRef = x.ch,
                                                   !.resubscribed = TRUE]
              ELSE Settle(r, x, "resolved")
         [] status \in {"CHANNEL_ERROR", "TIMED_OUT"} ->
              [Settle(r, x, "rejected") EXCEPT !.open = @ \ {x.ch}]
         [] OTHER -> r

\* the timeout callback of resubscribe(), lines 217-223
onResubTimeout(r, x) ==
  IF Settled(r, x) THEN r
  ELSE [Settle(r, x, "rejected") EXCEPT !.open = @ \ {x.ch}]

\* a channel opened by resubscribe() reports a status, before or after the
\* call has settled
RsResubStatus(x, status) ==
  /\ x.kind = "resub"
  /\ x \in rsAwait \/ \E d \in rsDone : d.ch = x.ch
  /\ status = "SUBSCRIBED" => x.ch \in rsOpen
  /\ RApply(onResubStatus([RCur EXCEPT !.subd = IF status = "SUBSCRIBED"
                                                THEN @ \cup {x.ch} ELSE @],
                          x, status),
            status)
  /\ RsFrame

\* RESUBSCRIBE_TIMEOUT_MS have passed; the timer is pending until it fires
\* or a status settles the call (clearTimeout, lines 229, 235)
RsResubTimeout(x) ==
  /\ x \in rsAwait /\ x.kind = "resub"
  /\ RApply(onResubTimeout(RCur, x), "resubTimeout")
  /\ RsFrame

InitRs ==
  /\ rsMounted = FALSE
  /\ rsInst = 0
  /\ rsClient = 0
  /\ rsEffectClient = 0
  /\ rsCount = 0
  /\ rsChannelRef = NoChannel
  /\ rsResubscribed = FALSE
  /\ rsOpen = {}
  /\ rsSubd = {}
  /\ rsAwait = {}
  /\ rsPass = "idle"
  /\ rsDone = {}
  /\ lastRsSettle = NoRsSettle
  /\ lastRsStep = "init"

RsChannels ==
  [ch : [name : 1..MaxRsAttempts, client : 1..MaxClients,
         inst : 1..MaxRsInst],
   kind : {"effect", "resub"}]

NextRs ==
  \/ RsMount
  \/ RsUnmount
  \/ RsClientChange
  \/ RsResubscribe
  \/ RecreateClient
  \/ RsPassEnd
  \/ \E x \in RsChannels : RsEffectSubscribed(x)
  \/ \E x \in RsChannels, status \in ChannelStatuses : RsResubStatus(x, status)
  \/ \E x \in RsChannels : RsResubTimeout(x)

\* a hook instance is an instance of one of the two managers
NoResubManager == lastRsStep = "init"

NoBackoffManager == lastSubStep = "init"

NextManagers ==
  \/ NoResubManager /\ SubMount
  \/ NoResubManager /\ SubUnmount
  \/ NoResubManager /\ SubClientChange
  \/ NoResubManager /\ \E ch \in 1..MaxSubscribes, status \in ChannelStatuses :
                          ChannelStatus(ch, status)
  \/ NoResubManager /\ SubRetryTimerFire
  \/ NoResubManager /\ SubOrphanTimerFire
  \/ NoResubManager /\ GoOffline
  \/ NoResubManager /\ GoOnline
  \/ NoBackoffManager /\ RsMount
  \/ NoBackoffManager /\ RsUnmount
  \/ NoBackoffManager /\ RsClientChange
  \/ NoBackoffManager /\ RsResubscribe
  \/ NoBackoffManager /\ RecreateClient
  \/ NoBackoffManager /\ RsPassEnd
  \/ NoBackoffManager /\ \E x \in RsChannels : RsEffectSubscribed(x)
  \/ NoBackoffManager /\ \E x \in RsChannels, status \in ChannelStatuses :
                            RsResubStatus(x, status)
  \/ NoBackoffManager /\ \E x \in RsChannels : RsResubTimeout(x)

\* ------------------------------------------------------------------------
\* MutationQueue (mutation-queue.ts): every call reads the array from
\* localStorage and writes it back; a setItem that throws is swallowed.
\* ------------------------------------------------------------------------
LogFrame == UNCHANGED <<orchVars, queueVars, instVars, subVars, rsVars>>

\* saveQueue, lines 31-37
saveQueue(stored, q, setItemOk) == IF setItemOk THEN q ELSE stored

\* MutationQueue.enqueue, lines 39-57, on the stored array
LogEnqueue(setItemOk) ==
  /\ logEnq < MaxLogEnq
  /\ ~setItemOk => logDeq + logFail < MaxLogOdd
  /\ LET entry == [id |-> logEnq + 1]
     IN /\ store' = saveQueue(store, enqueue(store, entry), setItemOk)
        /\ lastLogOp' = [op |-> "enqueue", id |-> entry.id,
                         before |-> Len(store), saved |-> setItemOk,
                         by |-> "addMutation"]
  /\ logEnq' = logEnq + 1
  /\ logFail' = IF setItemOk THEN logFail ELSE logFail + 1
  /\ UNCHANGED logDeq
  /\ LogFrame

\* the calls of dequeue() in useMutationQueue (part_000): executeMutation
\* after a success (line 37) and after a permanent client error (line 61),
\* flushQueue for a stale entry (line 86) and for an entry without executor
\* (line 135)
DequeueCallers == {"success", "permanent", "stale", "noExecutor"}

\* MutationQueue.dequeue, lines 59-62, on the stored array
LogDequeue(id, caller, setItemOk) ==
  /\ logDeq + logFail < MaxLogOdd
  /\ id \in Ids(store)
  /\ store' = saveQueue(store, dequeue(store, id), setItemOk)
  /\ lastLogOp' = [op |-> "dequeue", id |-> id, before |-> Len(store),
                   saved |-> setItemOk, by |-> caller]
  /\ logDeq' = logDeq + 1
  /\ UNCHANGED <<logEnq, logFail>>
  /\ LogFrame

InitLog ==
  /\ store = <<>>
  /\ logEnq = 0
  /\ logDeq = 0
  /\ logFail = 0
  /\ lastLogOp = [op |-> "init", id |-> 0, before |-> 0, saved |-> TRUE,
                  by |-> "none"]

\* the entries dequeue() is called for: the first, the middle and the last
DequeueChoices ==
  IF store = <<>> THEN {}
  ELSE {store[1].id, store[(Len(store) + 1) \div 2].id, store[Len(store)].id}

NextLog ==
  \/ \E setItemOk \in BOOLEAN : LogEnqueue(setItemOk)
  \/ \E id \in DequeueChoices, caller \in DequeueCallers,
          setItemOk \in BOOLEAN :
       LogDequeue(id, caller, setItemOk)

InitOrch ==
  /\ orchestratorStateRef = "initializing"
  /\ connectionStatus = "connecting"
  /\ retryCountRef = 0
  /\ reconnectLockRef = FALSE
  /\ retryTimeoutPending = FALSE
  /\ cooldownTimeoutPending = FALSE
  /\ cooldownOrphans = 0
  /\ jwtRef = FALSE
  /\ hasClient = FALSE
  /\ hasInitData \in BOOLEAN
  /\ throttled = FALSE
  /\ bootPc = "token"
  /\ viewMounted = FALSE
  /\ passPc = [p \in Slots |-> "none"]
  /\ lastEvent = "init"
  /\ startedPass = FALSE
  /\ consecTokenFail = 0
  /\ tokenFailRun = 0

Init == InitOrch /\ InitQueue /\ InitInst /\ InitSub /\ InitLog /\ InitRs

NextOrch ==
  \/ Online
  \/ Visible
  \/ Manual
  \/ Proactive
  \/ Heartbeat
  \/ ThrottleExpire
  \/ RetryTimerFire
  \/ CooldownTimerFire
  \/ \E p \in Slots : TokenFirstSettle(p)
  \/ \E p \in Slots : TokenFallbackSettle(p)
  \/ \E p \in Slots : StepSettle(p)
  \/ BootstrapToken
  \/ BootstrapComplete
  \/ ViewMount
  \/ ViewUnmount

SpecOrch == Init /\ [][NextOrch]_vars

\* setTimeout callbacks run and awaited requests settle
OrchFairness ==
  /\ WF_vars(CooldownTimerFire)
  /\ WF_vars(RetryTimerFire)
  /\ \A p \in Slots : /\ WF_vars(TokenFirstSettle(p))
                       /\ WF_vars(TokenFallbackSettle(p))
                       /\ WF_vars(StepSettle(p))

SpecOrchLive == Init /\ [][NextOrch]_vars /\ OrchFairness

\* the dispatcher does not read Telegram's initData
InitQueueSpec == Init /\ hasInitData = TRUE

SpecQueue == InitQueueSpec /\ [][NextQueue]_vars

SpecInst == InitQueueSpec /\ [][NextInst]_vars

\* a step by which the pass of instance i goes on after the executor it
\* awaited has settled (line 120): a step of InstFlushSettle(i), told by
\* what it records; c is the call the loop makes next, if any
InstSettleStep(i) ==
  /\ inst[i].flushing
  /\ inst[i].aw # NoCall
  /\ \E c \in {NoCall} \cup
               {CallOf(inst[i].snap[k], originalExecutor(inst[i].snap[k]),
                       "drain") : k \in 1..Len(inst[i].snap)} \cup
               {CallOf(inst[i].snap[k], executorFactory(inst[i].snap[k]),
                       "drain") : k \in 1..Len(inst[i].snap)} :
       lastInstStep' = [kind |-> "flushSettle", i |-> i, call |-> c]

\* an executor that was invoked settles: fetch resolves or rejects (part_011
\* lines 95-178), and the continuation of the awaiting flushQueue() is run
InstFairness == \A i \in Insts : WF_lastInstStep(InstSettleStep(i))

SpecInstLive == SpecInst /\ InstFairness

SpecSub == InitQueueSpec /\ [][NextSub]_vars

SpecLog == InitQueueSpec /\ [][NextLog]_vars

SpecRs == InitQueueSpec /\ [][NextRs]_vars

\* setTimeout callbacks run
RsFairness == \A x \in RsChannels : WF_vars(RsResubTimeout(x))

SpecRsLive == InitQueueSpec /\ [][NextRs]_vars /\ RsFairness

SpecManagers == InitQueueSpec /\ [][NextManagers]_vars

\* ------------------------------------------------------------------------
\* Properties of the Reconnection Orchestrator
\* ------------------------------------------------------------------------
PassesInFlight == {p \in Slots : passPc[p] # "none"}

Triggers == {"online", "visible", "manual", "proactive", "heartbeat"}

\* C1: at most one recovery sequence is in flight at any time, the mutex is
\* held exactly while one is, and a trigger (online, visibility, proactive
\* timer, heartbeat, manual reconnect) that arrives while the mutex is held
\* starts no pass and leaves the running pass where it is; a pass only ever
\* starts in the step of a trigger or of the retry timer (nothing is queued).
C1_SinglePass ==
  /\ [](Cardinality(PassesInFlight) <= 1)
  /\ [](reconnectLockRef <=> PassesInFlight # {})
  /\ [][(reconnectLockRef /\ lastEvent' \in Triggers)
          => (~startedPass' /\ passPc' = passPc)]_vars
  /\ [][startedPass' => lastEvent' \in Triggers \cup {"retryTimer"}]_vars

\* C1 witness: a manual reconnect arrived while a pass was awaiting a step
\* and was ignored.
C1_Witness ==
  /\ reconnectLockRef
  /\ \E p \in Slots : passPc[p] = "flush"
  /\ lastEvent = "manual"
  /\ ~startedPass

\* C7 (as stated): counting passes in a row whose credential refresh
\* failed, each of the first 4 leaves needs_retry with a retry scheduled and
\* the 5th enters auth_failed.
C7_Original ==
  lastEvent = "tokenFail" =>
    /\ consecTokenFail < 5 =>
          (orchestratorStateRef = "needs_retry" /\ retryTimeoutPending)
    /\ consecTokenFail = 5 => orchestratorStateRef = "auth_failed"

\* C7 (amended): a pass whose credential refresh and fallback both fail
\* increments the retry counter; while the counter is below 5 the state is
\* needs_retry with the retry timer scheduled, and when it has reached 5 the
\* state is auth_failed. When no later step failed and no
\* reconnect() ran since the counter was 0, the counter is the number of
\* credential failures in a row, so the 5th of them enters auth_failed.
C7_TokenFailureCeiling ==
  lastEvent = "tokenFail" =>
    /\ ~reconnectLockRef
    /\ retryCountRef >= 1
    /\ retryCountRef < 5 =>
          (orchestratorStateRef = "needs_retry" /\ retryTimeoutPending)
    /\ retryCountRef >= 5 =>
          orchestratorStateRef = "auth_failed"
    /\ (tokenFailRun >= 0 /\ tokenFailRun < MaxConsec) =>
          retryCountRef = tokenFailRun

\* C7 witness: the 5th credential failure in a row, counted from 0, has just
\* put the orchestrator in auth_failed.
C7_Witness ==
  /\ lastEvent = "tokenFail"
  /\ tokenFailRun = 5
  /\ consecTokenFail = 5
  /\ orchestratorStateRef = "auth_failed"

C9_Original ==
  [][lastEvent' = "manual" =>
       /\ retryCountRef' = 0
       /\ ~retryTimeoutPending' /\ ~cooldownTimeoutPending'
       /\ startedPass']_vars

\* C9 (amended): a manual reconnect call made while no recovery pass is in
\* flight clears the timers held by the retry and cooldown refs, sets the
\* retry counter to 0 whatever its value and the state, and starts a pass
\* at once (state reconnecting, mutex held); a call made while a pass is in
\* flight changes nothing.
C9_ManualReconnect ==
  [][lastEvent' = "manual" =>
       IF reconnectLockRef
         THEN /\ UNCHANGED <<orchestratorStateRef, connectionStatus,
                             retryCountRef, reconnectLockRef,
                             retryTimeoutPending, cooldownTimeoutPending,
                             passPc, throttled, jwtRef>>
              /\ ~startedPass'
         ELSE /\ retryCountRef' = 0
              /\ ~retryTimeoutPending' /\ ~cooldownTimeoutPending'
              /\ startedPass'
              /\ reconnectLockRef'
              /\ orchestratorStateRef' = "reconnecting"
              /\ Cardinality({p \in Slots : passPc'[p] # "none"}) = 1]_vars

\* C9 witness: a manual reconnect has just started a pass with the counter
\* back at 0 after the ceiling had been reached by credential failures.
C9_Witness ==
  /\ lastEvent = "manual"
  /\ startedPass
  /\ consecTokenFail >= 5
  /\ retryCountRef = 0
  /\ orchestratorStateRef = "reconnecting"

\* ------------------------------------------------------------------------
\* Properties of the Mutation Dispatcher
\* ------------------------------------------------------------------------
\* the steps in which flushQueue's loop runs
FlushSteps == {"flushStart", "flushSettle", "remount"}

\* the snapshot indices the loop reaches in a step: from the entry after the
\* one that settled (from the first, when the pass starts) up to the entry
\* whose executor it invokes, or to the end
FirstReached == IF lastStep' = "flushSettle" THEN idx + 1 ELSE 1

Reached == FirstReached .. (IF isFlushingRef' THEN idx' ELSE Len(snapshot'))

Invoked(m) == lastCall'.by = "drain" /\ lastCall'.id = m.id

PassedHow(m, how) == [m |-> m, how |-> how] \in lastPassed'

OlderThanWindow(m) == now - m.timestamp > 24 * 60 * 60 * 1000

SettledOk == lastSettle'.out.kind = "ok"

SettledPermanent ==
  /\ lastSettle'.out.kind = "err"
  /\ ~lastSettle'.out.net /\ lastSettle'.online
  /\ lastSettle'.out.status >= 400 /\ lastSettle'.out.status < 500
  /\ lastSettle'.out.status \notin {408, 429}

Resolved(t) == t \in TempIds /\ tempToRealId[t] # NoId

\* C4 (as stated): once the create of temp id T has returned a server id in
\* the pass, no executor the pass invokes sends T, in payload.itemId or in
\* payload.orderedIds.
C4_Original ==
  lastCall.by = "drain" =>
    \A t \in TempIds :
      Resolved(t) => (lastCall.itemId # t /\ t \notin lastCall.orderedIds)

\* C4 (amended): once the create of temp id T has returned server id S in
\* the pass, a later entry whose payload.itemId is T is, when the pass
\* reaches it, executed with itemId S by an executor the factory builds
\* from the resolved mutation (never by the cached one), provided it is not
\* older than 24 h and a credential is available; with no credential it is
\* dequeued unexecuted. An executor built this way stays cached and is
\* reused by a later pass if the call fails. No other payload field is
\* resolved: a reorder is executed with the orderedIds it was enqueued with.
C4_ItemIdResolved ==
  /\ [](lastCall.by = "drain" =>
          /\ lastCall.orderedIds = lastCall.origOrderedIds
          /\ IF Resolved(lastCall.origItemId)
                THEN /\ lastCall.itemId = tempToRealId[lastCall.origItemId]
                     /\ lastCall.src = "factory"
                     /\ jwtRef
                     /\ pendingExecutors[lastCall.id].itemId = lastCall.itemId
                ELSE \/ lastCall.itemId = lastCall.origItemId
                     \/ /\ lastCall.src = "factory"
                        /\ lastCall.origItemId \in TempIds
                        /\ lastCall.itemId = ServerIdOf(lastCall.origItemId))
  /\ [][lastStep' \in FlushSteps =>
         \A p \in lastPassed' :
           (p.m.itemId \in TempIds /\ tempToRealId'[p.m.itemId] # NoId) =>
             IF OlderThanWindow(p.m)
               THEN p.how = "stale"
               ELSE /\ p.how = "noExecutor"
                    /\ ~jwtRef
                    /\ p.m.id \notin Ids(queue')]_vars

\* C4 witness: the pass has invoked a factory-built executor that sends the
\* server id in place of the temp id the mutation was enqueued with.
C4_Witness ==
  /\ lastCall.by = "drain"
  /\ lastCall.origItemId \in TempIds
  /\ Resolved(lastCall.origItemId)
  /\ lastCall.itemId = ServerIdOf(lastCall.origItemId)
  /\ lastCall.src = "factory"

\* C5 (as stated): once the create of temp id T has failed in the pass and
\* stayed in the log, the pass neither executes nor dequeues an entry that
\* references T in payload.itemId or in payload.orderedIds.
C5_Original ==
  [][lastStep' \in FlushSteps =>
       \A t \in failedTempIds' :
         /\ lastCall'.by = "drain" =>
               (lastCall'.origItemId # t /\ t \notin lastCall'.origOrderedIds)
         /\ \A p \in lastPassed' :
               (p.m.id \in Ids(queue)
                 /\ (p.m.itemId = t \/ t \in p.m.orderedIds))
               => p.m.id \in Ids(queue')]_vars

\* C5 (amended): a temp id T is marked failed exactly when the create that
\* carries it was executed by the pass and is still in the log afterwards.
\* From then on the pass executes no entry whose payload.itemId is T; it
\* leaves such an entry in the log with its cached executor, unless the
\* entry is older than 24 h when the pass reaches it, in which case it is
\* dequeued as stale.
C5_DependentsSkipped ==
  /\ [][lastStep' = "flushSettle" =>
         failedTempIds' =
           failedTempIds \cup
             (IF awaiting.type = "create" /\ awaiting.id \in Ids(queue')
                THEN {awaiting.tempId} ELSE {})]_vars
  /\ [][lastStep' \in FlushSteps =>
         /\ lastCall'.by = "drain" => lastCall'.origItemId \notin failedTempIds'
         /\ \A p \in lastPassed' :
              p.m.itemId \in failedTempIds' =>
                IF OlderThanWindow(p.m)
                  THEN p.how = "stale" /\ p.m.id \notin Ids(queue')
                  ELSE /\ p.how = "skipped"
                       /\ p.m.id \in Ids(queue) <=> p.m.id \in Ids(queue')
                       /\ pendingExecutors'[p.m.id] = pendingExecutors[p.m.id]]_vars

\* C5 witness: the create of a temp id failed in the pass and the pass has
\* skipped an entry whose payload.itemId is that temp id; both are still in
\* the log.
C5_Witness ==
  \E p \in lastPassed :
    /\ p.how = "skipped"
    /\ p.m.itemId \in failedTempIds
    /\ p.m.id \in Ids(queue)
    /\ \E k \in 1..Len(queue) :
         queue[k].type = "create" /\ queue[k].tempId = p.m.itemId

\* C6 (as stated): the pass invokes no executor for an entry it reaches
\* 24 h or more after the entry was enqueued.
C6_Original ==
  lastCall.by = "drain" => now - lastCall.timestamp < 24 * 60 * 60 * 1000

\* C6 (amended): an entry the pass reaches more than 24 h after it was
\* enqueued is dequeued, its cached executor deleted, and no executor is
\* invoked for it; an entry reached exactly 24 h after it was enqueued (or
\* earlier) is not dropped as stale.
C6_StaleDrop ==
  /\ [](lastCall.by = "drain" =>
          now - lastCall.timestamp <= 24 * 60 * 60 * 1000)
  /\ [][lastStep' \in FlushSteps =>
         /\ \A k \in Reached :
              ~Invoked(snapshot'[k]) <=> \E p \in lastPassed' : p.m = snapshot'[k]
         /\ \A p \in lastPassed' :
              IF OlderThanWindow(p.m)
                THEN /\ p.how = "stale"
                     /\ p.m.id \notin Ids(queue')
                     /\ pendingExecutors'[p.m.id] = NoExec
                ELSE p.how # "stale"]_vars

\* C6 witness: the pass has dropped, unexecuted, an entry it reached 1 ms
\* past the 24 h window.
C6_Witness ==
  \E p \in lastPassed :
    /\ p.how = "stale"
    /\ now - p.m.timestamp = 24 * 60 * 60 * 1000 + 1
    /\ p.m.id \notin Ids(queue)
    /\ lastCall.id # p.m.id

\* C10: a failure that is no offline signal and carries status s dequeues
\* the mutation if and only if 400 <= s < 500 and s is neither 408 nor 429,
\* and otherwise leaves the log as it is; and no drain pass invokes the
\* executor of a mutation that was dequeued this way.
C10_Original ==
  /\ [][(/\ lastStep' \in {"flushSettle", "immediateSettle"}
          /\ lastSettle'.out.kind = "err"
          /\ ~lastSettle'.out.net /\ lastSettle'.online
          /\ lastSettle'.id \in Ids(queue))
         => IF SettledPermanent
              THEN /\ lastSettle'.id \notin Ids(queue')
                   /\ pendingExecutors'[lastSettle'.id] = NoExec
              ELSE queue' = queue]_vars
  /\ [](lastCall.by = "drain" => lastCall.id \notin droppedPermanent)

SettledOffline ==
  /\ lastSettle'.out.kind = "err"
  /\ (lastSettle'.out.net \/ ~lastSettle'.online)

ActivePasses == {i \in Insts : inst[i].flushing}

\* C12: at most one drain pass is active per collection at any time, and a
\* flushQueue() call made while a pass is active executes nothing, dequeues
\* nothing and starts nothing.
C12_Original ==
  /\ [](Cardinality(ActivePasses) <= 1)
  /\ [][lastInstStep'.kind = "flushRefused" =>
         /\ queue' = queue
         /\ inst' = inst
         /\ lastInstStep'.call = NoCall]_vars

\* ------------------------------------------------------------------------
\* C13: in the Subscription Manager the delay scheduled at the k-th
\* consecutive failure (k counted from 0 over the error statuses handled
\* since the last SUBSCRIBED status, online event or effect start) is
\* min(1000 * 2^k, 30000) ms: 1000, 2000, 4000, 8000, 16000, 30000, 30000;
\* the timer is set with that delay, and a SUBSCRIBED status resets the
\* retry counter, so that the next failure is scheduled with 1000 ms
\* ------------------------------------------------------------------------
SubErrors == {"CHANNEL_ERROR", "TIMED_OUT"}

C13_BackoffDelay ==
  /\ [][(lastSubStep' \in SubErrors /\ subActive) =>
         LET k == schedSince
         IN /\ lastDelay' = (CASE k = 0 -> 1000 [] k = 1 -> 2000
                               [] k = 2 -> 4000 [] k = 3 -> 8000
                               [] k = 4 -> 16000 [] OTHER -> 30000)
            /\ subRetryTimer' = lastDelay'
            /\ schedSince' = k + 1]_vars
  /\ [][(lastSubStep' = "SUBSCRIBED" /\ subActive) =>
         (subRetryCount' = 0 /\ schedSince' = 0)]_vars
  /\ [][(lastSubStep' = "online" /\ subActive) =>
         (subRetryCount' = 0 /\ schedSince' = 0)]_vars

\* the 7th consecutive failure after a successful connection, every attempt
\* having reported one error status, is scheduled 30000 ms later
C13_Witness ==
  /\ lastSubStep \in SubErrors
  /\ subHad
  /\ schedSince = 7
  /\ subCount = 7
  /\ subOrphans = 0
  /\ lastDelay = 30000

\* ------------------------------------------------------------------------
\* C14: a create with tempId T and a toggle referencing T were enqueued
\* while offline (each immediate attempt met an offline signal) and are the
\* log. A drain pass over them, as long as a credential is present, the
\* entry at hand is not older than 24 hours and its call succeeds, the
\* create returning the server id: first invokes the create, once; when the
\* create has settled invokes the toggle, once, with the server id the
\* create returned; and when the toggle has settled ends with an empty log,
\* one create call and one toggle call made.
\* ------------------------------------------------------------------------
CreateThenToggle(q) ==
  /\ Len(q) = 2
  /\ q[1].type = "create" /\ q[1].tempId \in TempIds
  /\ q[2].type = "toggle" /\ q[2].itemId = q[1].tempId

C14_Start(withConditions) ==
  (/\ lastStep' \in {"flushStart", "remount"}
   /\ CreateThenToggle(queue)
   /\ {queue[1].id, queue[2].id} \subseteq offlineQueued
   /\ withConditions => (jwtRef /\ now - queue[1].timestamp
                                     <= 24 * 60 * 60 * 1000))
  => /\ lastCall'.by = "drain" /\ lastCall'.id = queue[1].id
     /\ lastCall'.type = "create"
     /\ execCount'[queue[1].id] = 1 /\ execCount'[queue[2].id] = 0
     /\ queue' = queue

C14_CreateSettled(withConditions) ==
  (/\ lastStep' = "flushSettle"
   /\ CreateThenToggle(snapshot) /\ queue = snapshot
   /\ awaiting.id = snapshot[1].id
   /\ snapshot[2].id \in offlineQueued
   /\ lastSettle'.out.kind = "ok"
   /\ lastSettle'.out.result # NoId
   /\ withConditions => (jwtRef /\ now - snapshot[2].timestamp
                                     <= 24 * 60 * 60 * 1000))
  => /\ lastCall'.by = "drain" /\ lastCall'.id = snapshot[2].id
     /\ lastCall'.type = "toggle"
     /\ lastCall'.itemId = lastSettle'.out.result
     /\ execCount'[snapshot[1].id] = 1 /\ execCount'[snapshot[2].id] = 1
     /\ queue' = <<snapshot[2]>>

C14_ToggleSettled ==
  (/\ lastStep' = "flushSettle"
   /\ CreateThenToggle(snapshot) /\ queue = <<snapshot[2]>>
   /\ awaiting.id = snapshot[2].id
   /\ tempToRealId[snapshot[1].tempId] # NoId
   /\ snapshot[2].id \in offlineQueued
   /\ lastSettle'.out.kind = "ok")
  => /\ queue' = <<>>
     /\ ~isFlushingRef'
     /\ lastCall' = NoCall
     /\ execCount'[snapshot[1].id] = 1 /\ execCount'[snapshot[2].id] = 1

C15_Capacity ==
  /\ [](Len(store) <= 100)
  /\ [](\A i \in 1..(Len(store) - 1) : store[i].id < store[i + 1].id)
  /\ [][lastLogOp'.op = "enqueue" =>
         IF lastLogOp'.saved
           THEN store' = Append(IF Len(store) = 100 THEN Tail(store)
                                                     ELSE store,
                                [id |-> lastLogOp'.id])
           ELSE store' = store]_vars
  /\ [][lastLogOp'.op = "dequeue" =>
         /\ Len(store') <= Len(store)
         /\ \A i \in 1..Len(store') :
              \E j \in i..Len(store) : store'[i] = store[j]]_vars

\* an enqueue on a full log has evicted the head and kept the new entry
C15_Witness ==
  /\ lastLogOp.op = "enqueue"
  /\ lastLogOp.saved
  /\ lastLogOp.before = 100
  /\ Len(store) = 100
  /\ store[100].id = lastLogOp.id
  /\ logDeq > 0

\* ------------------------------------------------------------------------
\* C16: an enqueue whose write to localStorage fails raises no error (it
\* returns as any other) and the mutation is part of the log afterwards:
\* reading the log returns it
\* ------------------------------------------------------------------------
C16_Original ==
  [][lastLogOp'.op = "enqueue" => lastLogOp'.id \in Ids(store')]_vars

\* ------------------------------------------------------------------------
\* C17: a drain pass works on the log as it was when the pass started, which
\* is in enqueue order, and goes through it from the first entry on: every
\* entry before the one it invokes was passed over (stale, dependent on a
\* failed create, no executor) in that step or settled before. A running
\* pass awaits exactly one executor, that of the entry at its index; until
\* that executor settles the pass evaluates no entry and invokes nothing,
\* and the step in which it settles is the one that moves the index on.
\* ------------------------------------------------------------------------
PassedOver(k) ==
  \E how \in {"stale", "skipped", "noExecutor"} : PassedHow(snapshot'[k], how)

C17_InOrder ==
  /\ [](\A i, j \in 1..Len(snapshot) : i < j => snapshot[i].id < snapshot[j].id)
  /\ [](isFlushingRef => (/\ awaiting # NoCall
                          /\ idx \in 1..Len(snapshot)
                          /\ awaiting.id = snapshot[idx].id))
  /\ [][lastStep' \in FlushSteps =>
         /\ lastStep' = "flushSettle" =>
              (/\ snapshot' = snapshot
               /\ lastSettle'.id = snapshot[idx].id
               /\ idx' > idx)
         /\ lastStep' # "flushSettle" => snapshot' = queue
         /\ \A k \in FirstReached ..
                      (IF isFlushingRef' THEN idx' - 1 ELSE Len(snapshot')) :
              PassedOver(k)
         /\ isFlushingRef' =>
              (/\ lastCall'.by = "drain"
               /\ lastCall'.id = snapshot'[idx'].id
               /\ awaiting' = lastCall')
         /\ ~isFlushingRef' => lastCall' = NoCall]_vars
  /\ [][(isFlushingRef /\ lastStep' \notin {"flushSettle", "remount"}) =>
         /\ isFlushingRef'
         /\ idx' = idx /\ snapshot' = snapshot /\ awaiting' = awaiting
         /\ lastCall'.by # "drain"
         /\ lastPassed' = {}]_vars

\* the second entry of a pass is invoked in the step in which the executor
\* of the first one settled
C17_Witness ==
  /\ lastStep = "flushSettle"
  /\ isFlushingRef
  /\ Len(snapshot) = 2
  /\ idx = 2
  /\ lastSettle.id = snapshot[1].id
  /\ awaiting.id = snapshot[2].id
  /\ lastCall = awaiting

\* ------------------------------------------------------------------------
\* C18: in a drain pass an entry that is neither older than 24 hours nor
\* dependent on a failed create, and for which the pass has no executor
\* (none cached, or the cached one discarded because the item id was
\* resolved, and no credential to build one with), is dequeued without
\* being invoked, and only such an entry is dropped this way; the pass goes
\* on: it is then awaiting a later entry or has gone through all the later
\* entries. A mutation dropped this way never enters the log again and is
\* never invoked by a pass afterwards.
\* ------------------------------------------------------------------------
NoExecutorFor(m) ==
  /\ ~(now - m.timestamp > 24 * 60 * 60 * 1000)
  /\ ~(m.itemId # NoId /\ m.itemId \in failedTempIds')
  /\ \/ lastStep' = "remount"
     \/ pendingExecutors[m.id].src = "none"
     \/ m.itemId \in TempIds /\ tempToRealId'[m.itemId] # NoId
  /\ ~jwtRef

RemovedByDequeue(id) ==
  /\ lastLogOp'.op = "dequeue"
  /\ lastLogOp'.id = id
  /\ lastLogOp'.by \in {"success", "permanent", "stale", "noExecutor"}

TokenSteps == {"token1", "token1null", "token2"}

StepOrder ==
  {<<"none", "token1">>, <<"none", "token1null">>,
   <<"token1", "token2">>, <<"token1null", "token2">>,
   <<"token1", "flush">>, <<"token2", "flush">>,
   <<"flush", "resub">>, <<"resub", "refresh">>}
  \cup {<<pc, "none">> : pc \in TokenSteps \cup {"flush", "resub", "refresh"}}

C20_StepOrder ==
  /\ [][\A p \in Slots :
          passPc'[p] # passPc[p] =>
            /\ <<passPc[p], passPc'[p]>> \in StepOrder
            /\ passPc'[p] = "flush" =>
                 (lastEvent' = "tokenSettle" /\ jwtRef' /\ hasClient')
            /\ passPc'[p] \in {"resub", "refresh"} => lastEvent' = "stepSettle"
            /\ passPc'[p] \in {"token1", "token1null"} =>
                 (reconnectLockRef' /\ orchestratorStateRef' = "reconnecting")]_vars
  /\ [][lastEvent' \in {"tokenFail", "partialFail"} =>
         /\ \A p \in Slots :
              passPc[p] # "none" => passPc'[p] = "none"
         /\ lastEvent' = "tokenFail" =>
              \E p \in Slots : passPc[p] \in TokenSteps
         /\ orchestratorStateRef' \in {"needs_retry", "auth_failed"}]_vars
  /\ [](Cardinality({p \in Slots : passPc[p] # "none"}) <= 1)

\* a pass is in its last step, the re-fetch, the resubscribe having settled
C20_Witness ==
  /\ lastEvent = "stepSettle"
  /\ \E p \in Slots : passPc[p] = "refresh"
  /\ reconnectLockRef
  /\ jwtRef /\ hasClient

\* ------------------------------------------------------------------------
\* C21 (as stated): in cooldown neither the online event, the visibility
\* change, the proactive timer nor the heartbeat starts a recovery pass
\* ------------------------------------------------------------------------
C21_Original ==
  [][(orchestratorStateRef = "cooldown"
       /\ lastEvent' \in {"online", "visible", "proactive", "heartbeat"})
      => ~startedPass']_vars

\* C21: in cooldown the proactive timer and the heartbeat start no pass and
\* leave the state and the pass positions as they are; the online event and
\* the visibility change go through reconnect(), which forces the state to
\* idle: they start a pass exactly when their 5 s throttle has elapsed and
\* no pass holds the mutex, and then the state is reconnecting.
C21_CooldownGuard ==
  /\ [][(orchestratorStateRef = "cooldown"
          /\ lastEvent' \in {"proactive", "heartbeat"})
         => /\ ~startedPass'
            /\ orchestratorStateRef' = "cooldown"
            /\ passPc' = passPc
            /\ reconnectLockRef' = reconnectLockRef]_vars
  /\ [][(orchestratorStateRef = "cooldown"
          /\ lastEvent' \in {"online", "visible"})
         => /\ startedPass' <=> (~throttled /\ ~reconnectLockRef)
            /\ startedPass' => (/\ orchestratorStateRef' = "reconnecting"
                                /\ reconnectLockRef'
                                /\ retryCountRef' = 0)
            /\ ~startedPass' => orchestratorStateRef' = "cooldown"]_vars

\* the proactive timer fired in cooldown and nothing started
C21_Witness ==
  /\ orchestratorStateRef = "cooldown"
  /\ lastEvent = "proactive"
  /\ ~startedPass
  /\ ~reconnectLockRef
  /\ cooldownTimeoutPending

\* ------------------------------------------------------------------------
\* C22 (as stated): a pass in which every step succeeded sets the retry
\* counter to 0 and the state to cooldown, and cooldown is always eventually
\* followed by idle
\* ------------------------------------------------------------------------
C22_Original ==
  /\ [][lastEvent' = "passSuccess" =>
         (retryCountRef' = 0 /\ orchestratorStateRef' = "cooldown")]_vars
  /\ (orchestratorStateRef = "cooldown") ~> (orchestratorStateRef = "idle")

\* C22: a pass in which every step succeeded sets the retry counter to 0 and
\* the state to cooldown and sets the cooldown timer; in cooldown a cooldown
\* timer is pending; cooldown is always eventually left, and it is left
\* either for idle by the cooldown timer or the completing bootstrap, or for
\* reconnecting by reconnect() (manual, online, visibility) or by a retry
\* timer that was still pending, which force the state through idle into a
\* new pass.
C22_CooldownEnds ==
  /\ [][lastEvent' = "passSuccess" =>
         /\ retryCountRef' = 0
         /\ orchestratorStateRef' = "cooldown"
         /\ cooldownTimeoutPending'
         /\ ~reconnectLockRef']_vars
  /\ [](orchestratorStateRef = "cooldown" =>
          (cooldownTimeoutPending \/ cooldownOrphans > 0))
  /\ [][(orchestratorStateRef = "cooldown"
          /\ orchestratorStateRef' # "cooldown")
         => \/ /\ lastEvent' \in {"cooldownTimer", "bootstrap"}
               /\ orchestratorStateRef' = "idle"
            \/ /\ lastEvent' \in {"manual", "online", "visible", "retryTimer"}
               /\ startedPass'
               /\ orchestratorStateRef' = "reconnecting"]_vars
  /\ (orchestratorStateRef = "cooldown") ~> (orchestratorStateRef # "cooldown")

\* the cooldown timer has fired in cooldown and the state is idle
C22_Witness ==
  /\ lastEvent = "cooldownTimer"
  /\ orchestratorStateRef = "idle"
  /\ retryCountRef = 0
  /\ ~cooldownTimeoutPending
  /\ connectionStatus = "connected"

C24_AutoRetry ==
  /\ [](orchestratorStateRef = "needs_retry" /\ retryCountRef < 5
          => retryTimeoutPending)
  /\ [][lastEvent' = "retryTimer" =>
         /\ retryTimeoutPending /\ ~retryTimeoutPending'
         /\ retryCountRef' = retryCountRef
         /\ IF reconnectLockRef
              THEN ~startedPass' /\ orchestratorStateRef' = "idle"
              ELSE startedPass' /\ orchestratorStateRef' = "reconnecting"
                   /\ reconnectLockRef']_vars
  /\ (orchestratorStateRef = "needs_retry" /\ retryCountRef < 5)
       ~> (orchestratorStateRef = "reconnecting")

\* the retry timer has fired in needs_retry and started a pass
C24_Witness ==
  /\ lastEvent = "retryTimer"
  /\ startedPass
  /\ orchestratorStateRef = "reconnecting"
  /\ retryCountRef \in 1..4
  /\ ~retryTimeoutPending

\* ------------------------------------------------------------------------
\* C25: a pass invokes the flush, resubscribe or refresh callback only if
\* the list page has it registered at the moment the step before completed;
\* when no page is registered at that moment the remaining steps are
\* skipped and the pass ends in cooldown with the counter at 0 (a step
\* already awaited when the page unmounts is awaited to its end, and then
\* the remaining ones are skipped).
\* ------------------------------------------------------------------------
CallbackSteps == {"flush", "resub", "refresh"}

C25_RegisteredCallbacks ==
  /\ [][\A p \in Slots :
          (passPc'[p] \in CallbackSteps /\ passPc'[p] # passPc[p])
            => viewMounted]_vars
  /\ [][\A p \in Slots :
          (/\ ~viewMounted
           /\ passPc[p] # "none" /\ passPc'[p] # passPc[p]
           /\ lastEvent' \notin {"tokenFail", "partialFail"})
          => \/ passPc[p] \in {"token1", "token1null"} /\ passPc'[p] = "token2"
             \/ /\ passPc'[p] = "none"
                /\ lastEvent' = "passSuccess"
                /\ orchestratorStateRef' = "cooldown"
                /\ retryCountRef' = 0]_vars
  /\ [][lastEvent' \in {"viewMount", "viewUnmount"} =>
          (passPc' = passPc /\ orchestratorStateRef' = orchestratorStateRef)]_vars

\* a pass has ended in cooldown with no page registered
C25_Witness ==
  /\ lastEvent = "passSuccess"
  /\ ~viewMounted
  /\ orchestratorStateRef = "cooldown"
  /\ hasClient /\ jwtRef
  /\ \A p \in Slots : passPc[p] = "none"

\* ------------------------------------------------------------------------
\* C26: a Subscription Manager instance has at most one open channel at any
\* time, and it is the one held by channelRef: every step that opens a
\* channel (effect start, retry timer, online event) leaves the new channel
\* as the only open one, and after an error status has been handled no
\* channel is open until the retry.
\* ------------------------------------------------------------------------
C26_OneChannel ==
  /\ [](Cardinality(subOpen) <= 1)
  /\ [](subOpen \subseteq {subChannel})
  /\ [][subCount' # subCount => subOpen' = {subCount'}]_vars
  /\ [][(lastSubStep' \in SubErrors /\ subActive) => subOpen' = {}]_vars

\* the online event found the channel of the first attempt open and replaced it
C26_Witness ==
  /\ lastSubStep = "online"
  /\ subHad
  /\ subCount = 2
  /\ subOpen = {2}
  /\ subOrphans = 0

\* ------------------------------------------------------------------------
\* C27: a SUBSCRIBED status handled by an active Subscription Manager sets
\* its retry counter to 0 and its status to connected; onReconnect is called
\* by no other step, only if an error status was handled earlier in this
\* effect run, and never by the first SUBSCRIBED status of the run.
\* ------------------------------------------------------------------------
C27_RecoveredHook ==
  /\ [][(lastSubStep' = "SUBSCRIBED" /\ subActive) =>
         /\ subRetryCount' = 0
         /\ subStatus' = "connected"
         /\ subHad'
         /\ lastRecovered' => subFailed
         /\ ~subHad => ~lastRecovered']_vars
  /\ [][lastRecovered' => lastSubStep' = "SUBSCRIBED"]_vars

\* a success after a failure that followed a success calls onReconnect
C27_Witness ==
  /\ lastSubStep = "SUBSCRIBED"
  /\ lastRecovered
  /\ subStatus = "connected"
  /\ subRetryCount = 0
  /\ subCount = 2

\* ------------------------------------------------------------------------
\* C28: while the Subscription Manager's effect is running, its status is
\* 'connecting' only if a SUBSCRIBED status was handled in this effect run;
\* in particular it is not 'connecting' during the first attempt. The state
\* starts as 'connecting' and the first attempt does not change it.
\* ------------------------------------------------------------------------
C28_Original == (subActive /\ subStatus = "connecting") => subHad

\* ------------------------------------------------------------------------
\* C29: the online event handled by an active Subscription Manager leaves
\* the retry counter at 0 and no timer held, and opens a channel in the same
\* step; and no timer set before the online event fires after it: the step
\* that follows the online event is not a firing retry timer.
\* ------------------------------------------------------------------------
C29_OnlineStep ==
  (lastSubStep' = "online" /\ subActive) =>
    /\ subRetryCount' = 0
    /\ subRetryTimer' = 0
    /\ subCount' = subCount + 1
    /\ subOpen' = {subCount'}

C29_NoEarlierRetry ==
  lastSubStep = "online" => lastSubStep' \notin {"retryTimer", "orphanTimer"}

C29_Original == [][C29_OnlineStep /\ C29_NoEarlierRetry]_vars

\* ------------------------------------------------------------------------
\* C30: the number in the channel name. Original statement: every attempt
\* of a mounted instance after its first (backoff retry, online event,
\* resubscribe, re-subscribe after a client change) uses a number greater
\* than the counter held before it. Amended: that holds for the manager
\* with resubscribe(), whose counter is a ref of the hook instance; in the
\* backoff manager it holds within one effect run, and the effect run that
\* follows a client change starts again at 1.
\* ------------------------------------------------------------------------
SubRetrySteps == {"retryTimer", "orphanTimer", "online"}

C30_BackoffAttempt ==
  /\ lastSubStep' \in SubRetrySteps =>
       (subCount' = subCount + 1 /\ subChannel' = subCount'
         /\ subOpen' = {subCount'})
  /\ lastSubStep' \in {"mount", "clientChange"} =>
       (subCount' = 1 /\ subChannel' = 1 /\ subOpen' = {1})

C30_ResubAttempt ==
  /\ lastRsStep' # "mount" =>
       /\ rsCount' >= rsCount
       /\ \A c \in rsOpen' \ rsOpen : c.name = rsCount' /\ c.name > rsCount
  /\ (lastRsStep' = "resubscribe" /\ rsClient # 0) =>
       (rsCount' = rsCount + 1
         /\ [name |-> rsCount', client |-> rsClient, inst |-> rsInst]
              \in rsOpen' \ rsOpen)
  /\ (lastRsStep' = "clientChange" /\ rsClient # 0 /\ ~rsResubscribed) =>
       (rsCount' = rsCount + 1
         /\ [name |-> rsCount', client |-> rsClient, inst |-> rsInst]
              \in rsOpen' \ rsOpen)

C30_FreshNames == [][C30_BackoffAttempt /\ C30_ResubAttempt]_vars

C30_Original ==
  [][/\ (lastSubStep' \in SubRetrySteps \cup {"clientChange"}) =>
          subCount' > subCount
     /\ (lastRsStep' \in {"resubscribe", "clientChange"}
          /\ rsOpen' \ rsOpen # {}) => rsCount' > rsCount]_vars

\* the re-subscribe after the second client was created uses the third name
\* of the instance, after the initial subscribe and one resubscribe()
C30_Witness ==
  /\ lastRsStep = "clientChange"
  /\ rsClient = 2
  /\ rsCount = 3
  /\ [name |-> 3, client |-> 2, inst |-> rsInst] \in rsOpen

\* ------------------------------------------------------------------------
\* C31: every resubscribe() call settles exactly once and never hangs. With
\* no client it resolves in the call. Otherwise the call is pending until
\* its channel reports SUBSCRIBED (it resolves), CHANNEL_ERROR or TIMED_OUT
\* (it rejects) or its timeout fires (it rejects); a rejection has removed
\* the channel from the client; a settle takes the call out of the pending
\* ones and never settles a call that was settled; a status of a settled
\* call changes nothing; and every pending call eventually settles.
\* ------------------------------------------------------------------------
ResubCalls == {x \in RsChannels : x.kind = "resub"}

C31_SettleStep ==
  /\ lastRsSettle'.again = FALSE
  /\ lastRsStep' = "resubscribe" =>
       /\ lastRsSettle' # NoRsSettle <=> rsClient = 0
       /\ rsClient = 0 => (lastRsSettle'.outcome = "resolved"
                            /\ rsOpen' = rsOpen /\ rsAwait' = rsAwait)
       /\ rsClient # 0 => \E x \in ResubCalls : rsAwait' = rsAwait \cup {x}
                                                  /\ x \notin rsAwait
  /\ \A x \in ResubCalls : (x \in rsAwait /\ x \notin rsAwait') =>
       /\ lastRsStep' \in {"SUBSCRIBED", "CHANNEL_ERROR", "TIMED_OUT",
                           "resubTimeout"}
       /\ lastRsSettle'.ch = x.ch
       /\ lastRsSettle'.outcome = (IF lastRsStep' = "SUBSCRIBED"
                                   THEN "resolved" ELSE "rejected")
       /\ lastRsSettle'.outcome = "rejected" => x.ch \notin rsOpen'
  /\ (lastRsSettle' # NoRsSettle /\ lastRsSettle'.ch # NoChannel) =>
       /\ [ch |-> lastRsSettle'.ch, kind |-> "resub"] \in rsAwait
       /\ [ch |-> lastRsSettle'.ch, kind |-> "resub"] \notin rsAwait'
  /\ lastRsStep' = "resubTimeout" => lastRsSettle' # NoRsSettle
  /\ (rsDone = {} /\ lastRsStep' \in {"SUBSCRIBED", "CHANNEL_ERROR", "TIMED_OUT"})
       => lastRsSettle' # NoRsSettle
  /\ (lastRsSettle' = NoRsSettle
       /\ lastRsStep' \in {"SUBSCRIBED", "CHANNEL_ERROR", "TIMED_OUT", "CLOSED"})
       => UNCHANGED <<rsOpen, rsAwait, rsChannelRef, rsResubscribed, rsDone,
                      rsCount>>

C31_SettlesOnce ==
  /\ [][C31_SettleStep]_vars
  /\ \A x \in ResubCalls : (x \in rsAwait) ~> (x \notin rsAwait)

\* an error status from the channel of a call that had resolved: nothing
\* changed, the channel is still held and open
C31_Witness ==
  /\ lastRsStep \in {"CHANNEL_ERROR", "TIMED_OUT"}
  /\ lastRsSettle = NoRsSettle
  /\ \E d \in rsDone : /\ d.outcome = "resolved"
                        /\ rsChannelRef = d.ch
                        /\ d.ch \in rsOpen

\* ------------------------------------------------------------------------
\* C32: in the Subscription Manager with resubscribe(), a step that takes a
\* channel out of channelRef leaves that channel removed from its client,
\* and every channel that is open on a client is held by channelRef or by
\* a call or callback that is still waiting for its status.
\* ------------------------------------------------------------------------
C32_Discard ==
  (rsChannelRef # NoChannel /\ rsChannelRef' # rsChannelRef) =>
    rsChannelRef \notin rsOpen'

C32_Held == rsOpen \subseteq ({rsChannelRef} \cup {x.ch : x \in rsAwait})

C32_Original == [][C32_Discard]_vars /\ []C32_Held

\* ------------------------------------------------------------------------
\* C33: no mutation has two executor invocations in flight: the call a drain
\* pass awaits is never for a mutation whose immediate attempt, started by
\* addMutation, has not settled.
\* ------------------------------------------------------------------------
C33_Original ==
  \A call \in immediate : awaiting = NoCall \/ awaiting.id # call.id

\* ------------------------------------------------------------------------
\* C34: when the resubscribe() call of a pass that recreated the client has
\* resolved and the effect has run for the new client, the new client has
\* exactly one subscribed channel and no channel is open on another client.
\* ------------------------------------------------------------------------
C34_Original ==
  (/\ rsMounted
   /\ rsPass = "idle"
   /\ rsEffectClient = rsClient
   /\ \E d \in rsDone : d.outcome = "resolved" /\ d.ch.client = rsClient)
  => /\ Cardinality({c \in rsSubd : c.client = rsClient}) = 1
     /\ \A c \in rsOpen : c.client = rsClient

\* ------------------------------------------------------------------------
\* C35: the call a drain pass awaits is never made with a temp id as its
\* item id; in particular not after the create that carries the temp id
\* was dropped by the pass as stale or after a permanent client error, or
\* succeeded without returning a server id.
\* ------------------------------------------------------------------------
C35_Original == awaiting # NoCall => awaiting.itemId \notin TempIds

\* ------------------------------------------------------------------------
\* C36: addMutation during a drain pass appends the mutation to the log and
\* caches its executor, makes no call and leaves the pass as it is; the
\* pass awaits entries of its snapshot only; an entry of the log that is
\* not in the snapshot of the active pass stays in the log with no call
\* made for it, until a pass starts (by flushQueue or by a mount); and
\* an immediate call is made only by the addMutation that adds its
\* mutation while no pass is active.
\* ------------------------------------------------------------------------
C36_AddStep ==
  (lastStep' = "addMutation" /\ isFlushingRef) =>
    /\ Len(queue') = Len(queue) + 1
    /\ queue'[Len(queue')].id = nextMutId'
    /\ nextMutId' \notin Ids(snapshot) \cup Ids(queue)
    /\ pendingExecutors'[nextMutId'] # NoExec
    /\ lastCall' = NoCall
    /\ immediate' = immediate
    /\ execCount' = execCount
    /\ awaiting' = awaiting /\ snapshot' = snapshot /\ idx' = idx
    /\ isFlushingRef'

C36_PassLeavesIt ==
  /\ (isFlushingRef' /\ awaiting' # NoCall) => awaiting'.id \in Ids(snapshot')
  /\ \A i \in 1..Len(queue) :
       (/\ isFlushingRef
        /\ queue[i].id \notin Ids(snapshot)
        /\ lastStep' \notin {"flushStart", "remount"})
       => /\ queue[i].id \in Ids(queue')
          /\ execCount'[queue[i].id] = execCount[queue[i].id]
  /\ (lastCall' # NoCall /\ lastCall'.by = "immediate") =>
       (lastStep' = "addMutation" /\ ~isFlushingRef
         /\ lastCall'.id = nextMutId')

C36_AddedDuringPass == [][C36_AddStep /\ C36_PassLeavesIt]_vars

\* a pass has ended and the mutation added during it is in the log, no call
\* made for it
C36_Witness ==
  /\ ~isFlushingRef
  /\ lastStep = "flushSettle"
  /\ Len(queue) >= 1
  /\ queue[Len(queue)].id \notin Ids(snapshot)
  /\ execCount[queue[Len(queue)].id] = 0
  /\ pendingExecutors[queue[Len(queue)].id] # NoExec

\* ------------------------------------------------------------------------
\* C37: with every invoked executor settling, a drain pass that has started
\* ends and clears isFlushingRef of its instance; the flag is set only
\* while the pass awaits an executor, and a flushQueue() call is refused
\* only while a pass of the instance is awaiting, so after a pass has ended
\* the next call starts a pass.
\* ------------------------------------------------------------------------
C37_Refusal ==
  /\ lastInstStep'.kind = "flushRefused" =>
       /\ inst[lastInstStep'.i].flushing
       /\ inst[lastInstStep'.i].aw # NoCall
       /\ inst' = inst
  /\ \A i \in Insts :
       (instMounted = i /\ ~inst[i].flushing
         /\ lastInstStep'.kind \in {"flushStart", "flushRefused"})
       => /\ lastInstStep'.kind = "flushStart"
          /\ inst'[i].flushing = (inst'[i].aw # NoCall)
          /\ inst'[i].flushing => inst'[i].aw.id \in Ids(queue)

C37_PassEnds ==
  /\ [][C37_Refusal]_vars
  /\ [](\A i \in Insts : inst[i].flushing => inst[i].aw # NoCall)
  /\ \A i \in Insts : inst[i].flushing ~> ~inst[i].flushing

\* a pass of an instance has ended by the settlement of the executor it
\* awaited and the next flushQueue() of the instance has started a pass
C37_Witness ==
  /\ lastInstStep.kind = "flushStart"
  /\ inst[lastInstStep.i].flushing
  /\ inst[lastInstStep.i].aw # NoCall
  /\ inst[lastInstStep.i].aw.id > 1

\* ------------------------------------------------------------------------
\* C38: the orchestrator enters auth_failed only when the 5 most recent
\* recovery passes all failed at credential refresh; partial failures of
\* the steps after the refresh are not among the failures counted.
\* ------------------------------------------------------------------------
C38_EnterAuthFailed ==
  (orchestratorStateRef' = "auth_failed"
     /\ orchestratorStateRef # "auth_failed")
  => consecTokenFail' >= 5

C38_Original == [][C38_EnterAuthFailed]_vars

\* ------------------------------------------------------------------------
\* C39: in the backoff manager at most one retry timer is pending, and an
\* error status that arrives while a retry is already pending (a second
\* error status of the failed channel, or one of a replaced channel; no
\* channel is held while the timer is pending) schedules nothing and
\* leaves the retry counter as it is.
\* ------------------------------------------------------------------------
C39_PendingTimers == (IF subRetryTimer # 0 THEN 1 ELSE 0) + subOrphans

C39_SecondError ==
  (/\ lastSubStep' \in {"CHANNEL_ERROR", "TIMED_OUT"}
   /\ subActive
   /\ subRetryTimer # 0)
  => /\ subRetryCount' = subRetryCount
     /\ subRetryTimer' = subRetryTimer
     /\ subOrphans' = subOrphans

C39_Original == [][C39_SecondError]_vars /\ [](C39_PendingTimers <= 1)

TypeOrch ==
  /\ orchestratorStateRef \in OrchestratorState
  /\ retryCountRef \in 0..(MAX_RETRIES + 2)
  /\ cooldownOrphans \in 0..MaxOrphans

====
